---- MODULE Spec2Model ----
(***************************************************************************)
(* Model of elizaos-plugins/plugin-todo: the todo data service (todos,     *)
(* tags, points ledger, daily streaks), the two completion paths (the      *)
(* COMPLETE_TODO action and PUT /api/todos/:id/complete), uncomplete,      *)
(* delete, the daily reset worker and the overdue-reminder service.        *)
(*                                                                         *)
(* Every handler is a process in a request slot; one step of a process is  *)
(* one storage round trip (one awaited query) followed by the synchronous  *)
(* code up to the next await.  Time is counted in hours.                   *)
(***************************************************************************)
EXTENDS Integers, Sequences, FiniteSets, TLC

(***************************************************************************)
(* Bounds of the model.                                                    *)
(***************************************************************************)
MaxTodos == 1
MaxSlots == 2
MaxHistory == 2
MaxStreak == 2
MaxDaily == 12
MaxLedger == 3
MaxStreakAwards == 1
MaxClock == 27
MaxReminders == 2
MaxScanTodos == 2
MaxScanClock == 4
MaxDays == 4
MaxBalance == 60

(***************************************************************************)
(* Program constants.                                                      *)
(***************************************************************************)
CHECK_INTERVAL == 1
REMINDER_COOLDOWN == 24
DefaultPriority == 4
LatePoints == 5
DailyPoints == 10
StreakBonusCap == 50
AspirationalPoints == 50

VARIABLES
  todos,          \* todosTable: id -> row, or Nil
  todoTags,       \* todoTagsTable: id -> set of tags
  dailyStreaks,   \* dailyStreaksTable: <<todoId, entityId>> -> row, or Nil
  userPoints,     \* userPointsTable: <<entityId, worldId, roomId>> -> row, or Nil
  pointHistory,   \* pointHistoryTable: sequence of transactions, oldest first
  nextId,         \* next todo id the store hands out
  now,            \* wall clock
  reqs,           \* request slots: the handler running in each, with its locals
  timer,          \* TodoReminderService.timer: Nil, or [next |-> time of next tick]
  scan,           \* the checkOverdueTasks run in flight, or Nil
  sent,           \* reminders emitted so far: sequence of [todo, at]
  svc,            \* the reminder service's history: stop() has returned since the
                  \* last start; time of the running timer's last tick, or NoDate
  rewarded,       \* todo id -> completed successfully and neither reset nor uncompleted since
  runtime         \* the agent runtime: the WORLD_ID setting, the RESET_DAILY_TASKS worker
                  \* registered or not, the number of RESET_DAILY_TASKS tasks it holds

storeVars == <<todos, todoTags, dailyStreaks, userPoints, pointHistory, nextId>>
reminderVars == <<timer, scan, sent, svc>>
vars == <<todos, todoTags, dailyStreaks, userPoints, pointHistory, nextId, now,
          reqs, timer, scan, sent, svc, rewarded, runtime>>

Nil == [nil |-> TRUE]
\* the runtime before TodoPlugin.init: no setting, no worker, no task
NoPlugin == [worldId |-> FALSE, worker |-> FALSE, tasks |-> 0]
NoDate == -1
NoTodoId == 0
NoEntity == "none"
NoRoom == "none"

TodoIds == 1..MaxScanTodos
Slots == 1..MaxSlots
Entities == {"agent", "user"}
Worlds == {"w1"}
Rooms == {"r1"}
TheAgent == "agent"
TheWorld == "w1"
TheRoom == "r1"
TaskTypes == {"daily", "one-off", "aspirational"}

Min(a, b) == IF a < b THEN a ELSE b
Max(a, b) == IF a > b THEN a ELSE b

(***************************************************************************)
(* JavaScript objects: a function from the keys that are present.          *)
(***************************************************************************)
EmptyObj == [k \in {} |-> 0]
Has(o, k) == k \in DOMAIN o
\* { ...o, k: v }
Put(o, k, v) == [x \in DOMAIN o \cup {k} |-> IF x = k THEN v ELSE o[x]]
\* delete o[k]
Del(o, k) == [x \in DOMAIN o \ {k} |-> o[x]]
\* { ...o, ...u } ; on a table row, the SET of an UPDATE
Merge(o, u) == [x \in DOMAIN o \cup DOMAIN u |-> IF x \in DOMAIN u THEN u[x] ELSE o[x]]

RECURSIVE SumPoints(_)
SumPoints(h) == IF h = <<>> THEN 0 ELSE Head(h).points + SumPoints(Tail(h))

RECURSIVE SumPositive(_)
SumPositive(h) ==
  IF h = <<>> THEN 0
  ELSE (IF Head(h).points > 0 THEN Head(h).points ELSE 0) + SumPositive(Tail(h))

HistoryOf(a) == SelectSeq(pointHistory, LAMBDA x: x.acct = a)
HistoryFor(t) == SelectSeq(pointHistory, LAMBDA x: x.todoId = t)

(***************************************************************************)
(* TodoDataService.calculatePoints                                         *)
(***************************************************************************)
\* faulty variant, for sensitivity runs: the points grow with the priority number
OnTimePoints_Ascending(task) ==
  LET priority == IF task.priority = 0 THEN DefaultPriority ELSE task.priority
  IN priority * 10 + (IF task.isUrgent THEN 10 ELSE 0)

OnTimePoints(task) ==
  LET priority == IF task.priority = 0 THEN DefaultPriority ELSE task.priority
  IN (5 - priority) * 10 + (IF task.isUrgent THEN 10 ELSE 0)

\* faulty variant, for sensitivity runs: the streak bonus is not capped
StreakBonusPoints_NoCap(task) ==
  (IF Has(task.metadata, "streak") THEN task.metadata.streak ELSE 0) * 5

StreakBonusPoints(task) ==
  LET streak == IF Has(task.metadata, "streak") THEN task.metadata.streak ELSE 0
  IN Min(streak * 5, StreakBonusCap)

\* faulty variant, for sensitivity runs: a late completion of an urgent task earns the urgency bonus
calculatePoints_LateUrgent(task, completionStatus) ==
  CASE completionStatus = "onTime" -> OnTimePoints(task)
    [] completionStatus = "late" -> LatePoints + (IF task.isUrgent THEN 10 ELSE 0)
    [] completionStatus = "daily" -> DailyPoints
    [] completionStatus = "streakBonus" -> StreakBonusPoints(task)
    [] OTHER -> 0

calculatePoints(task, completionStatus) ==
  CASE completionStatus = "onTime" -> OnTimePoints(task)
    [] completionStatus = "late" -> LatePoints
    [] completionStatus = "daily" -> DailyPoints
    [] completionStatus = "streakBonus" -> StreakBonusPoints(task)
    [] OTHER -> 0

(***************************************************************************)
(* Request slots.  A slot holds the handler's position (pc) and locals.    *)
(***************************************************************************)
Idle ==
  [kind |-> "none", pc |-> "idle", tid |-> NoTodoId, entity |-> NoEntity,
   task |-> Nil, streak |-> Nil, acct |-> Nil, acctKey |-> <<>>, link |-> NoTodoId,
   pts |-> 0, newStreak |-> 0, meta |-> EmptyObj, at |-> 0, inc |-> FALSE,
   ret |-> "none", res |-> "none", afterReward |-> FALSE, h0 |-> 0, b0 |-> 0]

Busy(r) == reqs[r].pc \notin {"idle", "done"}
InFlight == Cardinality({r \in Slots : reqs[r].pc # "idle"})
Quiescent == \A r \in Slots : reqs[r].pc = "idle"

\* The handler returns (or its catch block answers): the locals are dropped,
\* the outcome stays until the slot is reused.
Finish(q, result) ==
  [Idle EXCEPT !.kind = q.kind, !.pc = "done", !.tid = q.tid, !.entity = q.entity,
               !.pts = q.pts, !.newStreak = q.newStreak, !.res = result,
               !.at = q.at, !.afterReward = q.afterReward, !.h0 = q.h0, !.b0 = q.b0]

SetReq(r, q) == reqs' = [reqs EXCEPT ![r] = q]

\* The slot is free again.
Retire(r) ==
  /\ reqs[r].pc = "done"
  /\ SetReq(r, Idle)
  /\ UNCHANGED <<storeVars, now, runtime, reminderVars, rewarded>>

(***************************************************************************)
(* Rows.                                                                   *)
(***************************************************************************)
TodoRow(type, entity, priority, isUrgent, dueDate, metadata) ==
  [agentId |-> TheAgent, worldId |-> TheWorld, roomId |-> TheRoom, entityId |-> entity,
   type |-> type, priority |-> priority, isUrgent |-> isUrgent, isCompleted |-> FALSE,
   dueDate |-> dueDate, completedAt |-> NoDate, metadata |-> metadata]

StreakRow(current, longest, last) ==
  [currentStreak |-> current, longestStreak |-> longest, lastCompletedDate |-> last]

PointsRow(current, total) == [currentPoints |-> current, totalPointsEarned |-> total]

Transaction(a, t, p) == [acct |-> a, todoId |-> t, points |-> p]

\* db.update(todosTable).set(updateData).where(eq(todosTable.id, todoId)):
\* the fields given are written, a missing row is no error.
updateTodoRows(T, id, updates) ==
  IF T[id] = Nil THEN T ELSE [T EXCEPT ![id] = Merge(@, updates)]

\* The counters stop growing at the bounds: a request that may add to the
\* ledger or to a streak is issued only below them, a streak that a request
\* in flight has read included.
Room(lim) ==
  /\ Len(pointHistory) < lim.hist
  /\ \A r \in Slots : reqs[r].streak # Nil => reqs[r].streak.currentStreak < lim.streak
  /\ \A t \in TodoIds : \A e \in Entities :
       dailyStreaks[<<t, e>>] # Nil => dailyStreaks[<<t, e>>].currentStreak < lim.streak
  /\ \A t \in TodoIds :
       (todos[t] # Nil /\ Has(todos[t].metadata, "streak")) =>
         todos[t].metadata.streak < lim.streak

Limits == [hist |-> MaxHistory, streak |-> MaxStreak]

(***************************************************************************)
(* What follows an await, by handler: the synchronous code up to the next  *)
(* storage call.                                                           *)
(***************************************************************************)
IsCompletion(q) == q.kind \in {"restComplete", "actComplete"}
Succeeded(q) == q.pc = "done" /\ q.res \in {"200", "COMPLETE_TODO"}

\* faulty variant, for sensitivity runs: the catch block answers as if the completion had gone through
Caught_Swallowed(q) ==
  Finish(q, IF q.kind = "restComplete" THEN "200" ELSE "COMPLETE_TODO")

\* A throw reaches the handler's catch block (REST: 500, action:
\* COMPLETE_TODO_ERROR); a direct service call rethrows to its caller.
Caught(q) == Finish(q, "error")

AccountOf(q) == <<q.entity, TheWorld, q.task.roomId>>

\* basePoints + streakPoints of a daily completion
DailyTotal(task, newStreak) ==
  calculatePoints(task, "daily")
    + (IF newStreak > 1 THEN calculatePoints(task, "streakBonus") ELSE 0)

\* processDailyTaskCompletion / the daily branch of the route, after updateStreak
AfterStreak(q, streakData, clock) ==
  LET newStreak == streakData.currentStreak
      total == DailyTotal(q.task, newStreak)
  IN CASE q.kind = "restComplete" ->
            [q EXCEPT !.newStreak = newStreak, !.pts = total,
                      !.meta = Put(Put(Put(Put(q.meta, "completedToday", TRUE),
                                   "lastCompletedDate", q.at), "streak", newStreak),
                                   "pointsAwarded", total),
                      !.acctKey = AccountOf(q), !.link = q.tid,
                      !.pc = IF total > 0 THEN "ap_select" ELSE "rc_update"]
       [] q.kind = "actComplete" ->
            [q EXCEPT !.newStreak = newStreak, !.pts = total, !.at = clock,
                      !.meta = Put(Put(Put(Put(q.task.metadata, "streak", newStreak),
                                   "lastCompletedAt", clock), "completedToday", TRUE),
                                   "pointsAwarded", total),
                      !.pc = "ac_update"]
       [] OTHER -> Finish([q EXCEPT !.newStreak = newStreak], "ok")

\* after addUserPoints has returned
AfterPoints(q) ==
  CASE q.kind = "restComplete" -> [q EXCEPT !.pc = "rc_update"]
    [] q.kind = "actComplete" -> Finish(q, "COMPLETE_TODO")
    [] OTHER -> Finish(q, "ok")

\* The slot moves on; a completion that ends in success marks its task rewarded.
Settle(r, q) ==
  /\ SetReq(r, q)
  /\ rewarded' = IF IsCompletion(q) /\ Succeeded(q)
                 THEN [rewarded EXCEPT ![q.tid] = TRUE]
                 ELSE rewarded

(***************************************************************************)
(* TodoDataService.addUserPoints: select, insert or update, history insert *)
(***************************************************************************)
\* faulty variant, for sensitivity runs: the update overwrites the balance instead of adding to it
newPoints_Overwrite(row, pointsToAdd) == pointsToAdd

newPoints(row, pointsToAdd) == row.currentPoints + pointsToAdd
newTotal(row, pointsToAdd) == row.totalPointsEarned + pointsToAdd

addUserPoints_select(r) ==
  LET q == reqs[r] IN
  /\ q.pc = "ap_select"
  /\ SetReq(r, [q EXCEPT !.acct = userPoints[q.acctKey], !.pc = "ap_write"])
  /\ UNCHANGED <<storeVars, now, runtime, reminderVars, rewarded>>

addUserPoints_insert(r) ==
  LET q == reqs[r]
      row == PointsRow(q.pts, q.pts)
  IN
  /\ q.pc = "ap_write"
  /\ q.acct = Nil
  /\ IF userPoints[q.acctKey] # Nil
     THEN \* unique_user_points: the insert throws
          /\ SetReq(r, Caught(q))
          /\ UNCHANGED userPoints
     ELSE /\ userPoints' = [userPoints EXCEPT ![q.acctKey] = row]
          /\ SetReq(r, [q EXCEPT !.acct = row, !.pc = "ap_hist"])
  /\ UNCHANGED <<todos, todoTags, dailyStreaks, pointHistory, nextId, now, runtime,
                 reminderVars, rewarded>>

addUserPoints_update(r) ==
  LET q == reqs[r]
      row == PointsRow(newPoints(q.acct, q.pts), newTotal(q.acct, q.pts))
  IN
  /\ q.pc = "ap_write"
  /\ q.acct # Nil
  /\ userPoints' = [userPoints EXCEPT ![q.acctKey] = row]
  /\ SetReq(r, [q EXCEPT !.acct = [q.acct EXCEPT !.currentPoints = row.currentPoints],
                         !.pc = "ap_hist"])
  /\ UNCHANGED <<todos, todoTags, dailyStreaks, pointHistory, nextId, now, runtime,
                 reminderVars, rewarded>>

addUserPoints_history(r) ==
  LET q == reqs[r] IN
  /\ q.pc = "ap_hist"
  /\ IF q.link # NoTodoId /\ todos[q.link] = Nil
     THEN \* point_history.todo_id references a todo that is gone: the insert throws
          /\ Settle(r, Caught(q))
          /\ UNCHANGED pointHistory
     ELSE /\ pointHistory' = Append(pointHistory, Transaction(q.acctKey, q.link, q.pts))
          /\ Settle(r, AfterPoints(q))
  /\ UNCHANGED <<todos, todoTags, dailyStreaks, userPoints, nextId, now, runtime, reminderVars>>

(***************************************************************************)
(* TodoDataService.getOrCreateStreak and updateStreak                      *)
(***************************************************************************)
StreakKey(q) == <<q.tid, q.entity>>

AfterGetOrCreate(q, row) ==
  IF q.kind = "getOrCreateStreak"
  THEN Finish(q, "ok")
  ELSE [q EXCEPT !.streak = row, !.pc = "us_update"]

getOrCreateStreak_select(r) ==
  LET q == reqs[r]
      row == dailyStreaks[StreakKey(q)]
  IN
  /\ q.pc = "us_select"
  /\ SetReq(r, IF row # Nil THEN AfterGetOrCreate(q, row) ELSE [q EXCEPT !.pc = "us_insert"])
  /\ UNCHANGED <<storeVars, now, runtime, reminderVars, rewarded>>

getOrCreateStreak_insert(r) ==
  LET q == reqs[r]
      row == StreakRow(0, 0, NoDate)
  IN
  /\ q.pc = "us_insert"
  /\ IF dailyStreaks[StreakKey(q)] # Nil \/ todos[q.tid] = Nil
     THEN \* unique_todo_streak, or daily_streaks.todo_id references no todo
          /\ SetReq(r, Caught(q))
          /\ UNCHANGED dailyStreaks
     ELSE /\ dailyStreaks' = [dailyStreaks EXCEPT ![StreakKey(q)] = row]
          /\ SetReq(r, AfterGetOrCreate(q, row))
  /\ UNCHANGED <<todos, todoTags, userPoints, pointHistory, nextId, now, runtime,
                 reminderVars, rewarded>>

\* faulty variant, for sensitivity runs: the longest streak is not raised with the current one
incrementedStreak_LongestKept(streak, clock) ==
  [currentStreak |-> streak.currentStreak + 1,
   longestStreak |-> streak.longestStreak,
   lastCompletedDate |-> clock]

\* the SET of the two updates of updateStreak
incrementedStreak(streak, clock) ==
  [currentStreak |-> streak.currentStreak + 1,
   longestStreak |-> Max(streak.currentStreak + 1, streak.longestStreak),
   lastCompletedDate |-> clock]

\* faulty variant, for sensitivity runs: the reset clears the longest streak too
resetStreak_LongestCleared(streak) == [currentStreak |-> 0, longestStreak |-> 0]

resetStreak(streak) == [currentStreak |-> 0]

updateStreak_update(r) ==
  LET q == reqs[r]
      set == IF q.inc THEN incrementedStreak(q.streak, now) ELSE resetStreak(q.streak)
      k == StreakKey(q)
  IN
  /\ q.pc = "us_update"
  /\ dailyStreaks' = IF dailyStreaks[k] = Nil THEN dailyStreaks
                     ELSE [dailyStreaks EXCEPT ![k] = Merge(@, set)]
  /\ SetReq(r, AfterStreak(q, Merge(q.streak, set), now))
  /\ UNCHANGED <<todos, todoTags, userPoints, pointHistory, nextId, now, runtime,
                 reminderVars, rewarded>>

(***************************************************************************)
(* PUT /api/todos/:id/complete                                             *)
(***************************************************************************)
\* The request starts: a slot is taken, lowest first.
Free(r) == reqs[r].pc = "idle" /\ \A o \in 1..(r - 1) : reqs[o].pc # "idle"

Balance(a) == IF userPoints[a] = Nil THEN 0 ELSE userPoints[a].currentPoints

\* afterReward, h0 and b0 record what held when the request was issued: the
\* task was rewarded, the length of the ledger, the balance of the entity.
Begin(kind, t, e) ==
  [Idle EXCEPT !.kind = kind, !.tid = t, !.entity = e, !.at = now,
               !.afterReward = IF t \in TodoIds THEN rewarded[t] ELSE FALSE,
               !.h0 = Len(pointHistory),
               !.b0 = IF e \in Entities THEN Balance(<<e, TheWorld, TheRoom>>) ELSE 0]

\* faulty variant, for sensitivity runs: the route forgets the already-completed check
RestCompleteCheck_NoGuard(task) == IF task = Nil THEN "404" ELSE "go"

\* the guard of the route on what getTodo returned
RestCompleteCheck(task) ==
  IF task = Nil THEN "404" ELSE IF task.isCompleted THEN "400" ELSE "go"

\* with context: the points branch chosen by the task's type
RestCompleteWithContext(q) ==
  LET task == q.task IN
  CASE task.type = "daily" -> [q EXCEPT !.pc = "us_select", !.inc = TRUE]
    [] task.type = "one-off" /\ task.dueDate # NoDate ->
         LET completionStatus == IF q.at > task.dueDate THEN "late" ELSE "onTime"
             pointsToAdd == calculatePoints(task, completionStatus)
         IN [q EXCEPT !.pts = pointsToAdd,
                      !.meta = Put(q.meta, "pointsAwarded", pointsToAdd),
                      !.acctKey = AccountOf(q), !.link = q.tid,
                      !.pc = IF pointsToAdd > 0 THEN "ap_select" ELSE "rc_update"]
    [] task.type = "aspirational" ->
         [q EXCEPT !.pts = AspirationalPoints,
                   !.meta = Put(q.meta, "pointsAwarded", AspirationalPoints),
                   !.acctKey = AccountOf(q), !.link = q.tid, !.pc = "ap_select"]
    [] OTHER -> [q EXCEPT !.pc = "rc_update"]

\* faulty variant, for sensitivity runs: without context the metadata streak is not counted
RestCompleteNoContext_StreakKept(q) ==
  IF q.task.type = "daily"
  THEN [q EXCEPT !.meta = Put(Put(q.meta, "completedToday", TRUE),
                              "lastCompletedDate", q.at),
                 !.pc = "rc_update"]
  ELSE [q EXCEPT !.pc = "rc_update"]

\* without context: no points, the streak is counted in the metadata only
RestCompleteNoContext(q) ==
  IF q.task.type = "daily"
  THEN LET currentStreak == IF Has(q.meta, "streak") THEN q.meta.streak ELSE 0
       IN [q EXCEPT !.meta = Put(Put(Put(q.meta, "completedToday", TRUE),
                                 "lastCompletedDate", q.at), "streak", currentStreak + 1),
                    !.pc = "rc_update"]
  ELSE [q EXCEPT !.pc = "rc_update"]

RestCompleteBody(q) ==
  IF q.entity # NoEntity /\ q.task.roomId # NoEntity
  THEN RestCompleteWithContext(q)
  ELSE RestCompleteNoContext(q)

\* getTodo, the checks, and the synchronous code up to the next storage call
RestComplete(r, t, e) ==
  LET task == todos[t]
      q == [Begin("restComplete", t, e) EXCEPT
              !.task = task,
              !.meta = Put(Put(task.metadata, "completedAt", now), "pointsAwarded", 0)]
      check == RestCompleteCheck(task)
  IN
  /\ Free(r)
  /\ SetReq(r, IF check = "go" THEN RestCompleteBody(q)
               ELSE Finish(Begin("restComplete", t, e), check))
  /\ UNCHANGED <<storeVars, now, runtime, reminderVars, rewarded>>

\* updateTodo(taskId, {isCompleted: true, completedAt: now, metadata}), then the answer
RestComplete_update(r) ==
  LET q == reqs[r] IN
  /\ q.pc = "rc_update"
  /\ todos' = updateTodoRows(todos, q.tid,
                [isCompleted |-> TRUE, completedAt |-> q.at, metadata |-> q.meta])
  /\ Settle(r, Finish(q, "200"))
  /\ UNCHANGED <<todoTags, dailyStreaks, userPoints, pointHistory, nextId, now, runtime,
                 reminderVars>>

(***************************************************************************)
(* completeTodoAction.handler                                              *)
(***************************************************************************)
\* getTodos({roomId, isCompleted: false})
IncompleteInRoom(room) ==
  {t \in TodoIds : todos[t] # Nil /\ todos[t].roomId = room /\ ~todos[t].isCompleted}

\* processOneOffTaskCompletion, up to updateTodo
OneOffCompletion(q) ==
  LET task == q.task
      completedOnTime == IF task.dueDate # NoDate THEN q.at <= task.dueDate ELSE TRUE
      points == calculatePoints(task, IF completedOnTime THEN "onTime" ELSE "late")
  IN [q EXCEPT !.pts = points,
               !.meta = Put(Put(Put(task.metadata, "completedAt", q.at),
                            "completedOnTime", completedOnTime), "pointsAwarded", points),
               !.pc = "ac_update"]

\* faulty variant, for sensitivity runs: an aspirational goal is rewarded like a one-off task
AspirationalCompletion_AsOneOff(q) == OneOffCompletion(q)

\* processAspirationalTaskCompletion, up to updateTodo
AspirationalCompletion(q) ==
  [q EXCEPT !.pts = AspirationalPoints,
            !.meta = Put(Put(q.task.metadata, "completedAt", q.at),
                         "pointsAwarded", AspirationalPoints),
            !.pc = "ac_update"]

ActCompleteBody(q) ==
  CASE q.task.type = "daily" -> [q EXCEPT !.pc = "us_select", !.inc = TRUE]
    [] q.task.type = "one-off" -> OneOffCompletion(q)
    [] q.task.type = "aspirational" -> AspirationalCompletion(q)
    [] OTHER -> [q EXCEPT !.meta = Put(q.task.metadata, "completedAt", q.at),
                          !.pc = "ac_update"]

\* The handler up to the first storage call of the completion; t is the task
\* the message names (options.taskId, or the extraction's answer).
ActComplete(r, t, e) ==
  LET availableTodos == IncompleteInRoom(TheRoom)
      q == Begin("actComplete", t, e)
  IN
  /\ Free(r)
  /\ SetReq(r, IF availableTodos = {} THEN Finish(q, "COMPLETE_TODO_NO_TASKS")
               ELSE IF t \notin availableTodos THEN Finish(q, "COMPLETE_TODO_NOT_FOUND")
               ELSE ActCompleteBody([q EXCEPT !.task = todos[t]]))
  /\ UNCHANGED <<storeVars, now, runtime, reminderVars, rewarded>>

\* updateTodo(task.id, {isCompleted: true, completedAt: new Date(), metadata})
ActComplete_update(r) ==
  LET q == reqs[r]
      known == q.task.type \in TaskTypes
  IN
  /\ q.pc = "ac_update"
  /\ todos' = updateTodoRows(todos, q.tid,
                [isCompleted |-> TRUE, completedAt |-> q.at, metadata |-> q.meta])
  /\ Settle(r, IF known
               THEN [q EXCEPT !.acctKey = AccountOf(q), !.link = q.tid, !.pc = "ap_select"]
               ELSE Finish(q, "COMPLETE_TODO"))
  /\ UNCHANGED <<todoTags, dailyStreaks, userPoints, pointHistory, nextId, now, runtime,
                 reminderVars>>

(***************************************************************************)
(* PUT /api/todos/:id/uncomplete                                           *)
(***************************************************************************)
UncompleteCheck(task) ==
  IF task = Nil THEN "404" ELSE IF ~task.isCompleted THEN "400" ELSE "go"

\* faulty variant, for sensitivity runs: the awarded points stay in the metadata
UncompleteMetadata_KeepPoints(task) ==
  LET m == Del(task.metadata, "completedAt")
  IN IF task.type = "daily" /\ Has(m, "completedToday") /\ m.completedToday
     THEN Del(m, "completedToday")
     ELSE m

UncompleteMetadata(task) ==
  LET m == Del(Del(task.metadata, "completedAt"), "pointsAwarded")
  IN IF task.type = "daily" /\ Has(m, "completedToday") /\ m.completedToday
     THEN Del(m, "completedToday")
     ELSE m

Uncomplete(r, t) ==
  LET task == todos[t]
      q == Begin("uncomplete", t, NoEntity)
      check == UncompleteCheck(task)
  IN
  /\ Free(r)
  /\ SetReq(r, IF check = "go"
               THEN [q EXCEPT !.task = task, !.meta = UncompleteMetadata(task),
                              !.pc = "un_update"]
               ELSE Finish(q, check))
  /\ UNCHANGED <<storeVars, now, runtime, reminderVars, rewarded>>

Uncomplete_update(r) ==
  LET q == reqs[r] IN
  /\ q.pc = "un_update"
  /\ todos' = updateTodoRows(todos, q.tid,
                [isCompleted |-> FALSE, completedAt |-> NoDate, metadata |-> q.meta])
  /\ SetReq(r, Finish(q, "200"))
  /\ rewarded' = [rewarded EXCEPT ![q.tid] = FALSE]
  /\ UNCHANGED <<todoTags, dailyStreaks, userPoints, pointHistory, nextId, now, runtime,
                 reminderVars>>

(***************************************************************************)
(* The RESET_DAILY_TASKS worker: TodoDataService.resetDailyTodos(agentId), *)
(* one UPDATE statement.                                                   *)
(***************************************************************************)
\* faulty variant, for sensitivity runs: the type of the task is not tested
ResetTargets_AnyType(agentId) ==
  {t \in TodoIds : /\ todos[t] # Nil
                   /\ todos[t].agentId = agentId
                   /\ todos[t].isCompleted}

ResetTargets(agentId) ==
  {t \in TodoIds : /\ todos[t] # Nil
                   /\ todos[t].agentId = agentId
                   /\ todos[t].type = "daily"
                   /\ todos[t].isCompleted}

\* faulty variant, for sensitivity runs: the reset leaves completedAt as it is
resetDailyTodos_DateKept(r, agentId) ==
  LET hit == ResetTargets(agentId) IN
  /\ Free(r)
  /\ todos' = [t \in TodoIds |->
                 IF t \in hit
                 THEN Merge(todos[t], [isCompleted |-> FALSE])
                 ELSE todos[t]]
  /\ SetReq(r, Finish([Begin("reset", NoTodoId, agentId) EXCEPT !.pts = Cardinality(hit)],
                      "ok"))
  /\ rewarded' = [t \in TodoIds |-> IF t \in hit THEN FALSE ELSE rewarded[t]]
  /\ UNCHANGED <<todoTags, dailyStreaks, userPoints, pointHistory, nextId, now, runtime,
                 reminderVars>>

resetDailyTodos(r, agentId) ==
  LET hit == ResetTargets(agentId) IN
  /\ Free(r)
  /\ todos' = [t \in TodoIds |->
                 IF t \in hit
                 THEN Merge(todos[t], [isCompleted |-> FALSE, completedAt |-> NoDate])
                 ELSE todos[t]]
  /\ SetReq(r, Finish([Begin("reset", NoTodoId, agentId) EXCEPT !.pts = Cardinality(hit)],
                      "ok"))
  /\ rewarded' = [t \in TodoIds |-> IF t \in hit THEN FALSE ELSE rewarded[t]]
  /\ UNCHANGED <<todoTags, dailyStreaks, userPoints, pointHistory, nextId, now, runtime,
                 reminderVars>>

(***************************************************************************)
(* DELETE /api/todos/:id and TodoDataService.deleteTodo                    *)
(***************************************************************************)
DeleteTodo(r, t) ==
  LET q == Begin("delete", t, NoEntity) IN
  /\ Free(r)
  /\ SetReq(r, IF todos[t] = Nil THEN Finish(q, "404") ELSE [q EXCEPT !.pc = "del"])
  /\ UNCHANGED <<storeVars, now, runtime, reminderVars, rewarded>>

\* faulty variant, for sensitivity runs: the transactions of the task go with it
deleteTodo_HistoryDropped(r) ==
  LET q == reqs[r] IN
  /\ q.pc = "del"
  /\ todos' = [todos EXCEPT ![q.tid] = Nil]
  /\ todoTags' = [todoTags EXCEPT ![q.tid] = {}]
  /\ dailyStreaks' = [k \in DOMAIN dailyStreaks |->
                        IF k[1] = q.tid THEN Nil ELSE dailyStreaks[k]]
  /\ pointHistory' = SelectSeq(pointHistory, LAMBDA x : x.todoId # q.tid)
  /\ SetReq(r, Finish(q, "200"))
  /\ rewarded' = [rewarded EXCEPT ![q.tid] = FALSE]
  /\ UNCHANGED <<userPoints, nextId, now, runtime, reminderVars>>

\* the row goes, and with it what the schema cascades
deleteTodo(r) ==
  LET q == reqs[r] IN
  /\ q.pc = "del"
  /\ todos' = [todos EXCEPT ![q.tid] = Nil]
  /\ todoTags' = [todoTags EXCEPT ![q.tid] = {}]
  /\ dailyStreaks' = [k \in DOMAIN dailyStreaks |->
                        IF k[1] = q.tid THEN Nil ELSE dailyStreaks[k]]
  /\ pointHistory' = [i \in 1..Len(pointHistory) |->
                        IF pointHistory[i].todoId = q.tid
                        THEN [pointHistory[i] EXCEPT !.todoId = NoTodoId]
                        ELSE pointHistory[i]]
  /\ SetReq(r, Finish(q, "200"))
  /\ rewarded' = [rewarded EXCEPT ![q.tid] = FALSE]
  /\ UNCHANGED <<userPoints, nextId, now, runtime, reminderVars>>

(***************************************************************************)
(* POST /api/todos and TodoDataService.createTodo                          *)
(***************************************************************************)
PriorityTag(p) ==
  CASE p = 1 -> "priority-1" [] p = 2 -> "priority-2" [] p = 3 -> "priority-3"
    [] OTHER -> "priority-4"

CreateTags(type, priority, isUrgent) ==
  CASE type = "daily" -> {"TODO", "daily", "recurring-daily"}
    [] type = "one-off" ->
         {"TODO", "one-off"}
           \cup {PriorityTag(IF priority >= 1 /\ priority <= 4 THEN priority ELSE 4)}
           \cup (IF isUrgent THEN {"urgent"} ELSE {})
    [] OTHER -> {"TODO", "aspirational"}

CreateMetadata(type) ==
  IF type = "daily" THEN [streak |-> 0, completedToday |-> FALSE] ELSE EmptyObj

\* the insert into todos; priority 0 stands for a priority the body leaves out
CreateTodo(r, type, priority, isUrgent, dueDate) ==
  LET p == IF type = "one-off" THEN (IF priority = 0 THEN 4 ELSE priority)
           ELSE DefaultPriority
      u == IF type = "one-off" THEN isUrgent ELSE FALSE
      q == Begin("create", nextId, TheAgent)
  IN
  /\ Free(r)
  /\ nextId \in TodoIds
  /\ todos' = [todos EXCEPT ![nextId] =
                 TodoRow(type, TheAgent, p, u, dueDate, CreateMetadata(type))]
  /\ nextId' = nextId + 1
  /\ SetReq(r, [q EXCEPT !.task = todos'[nextId], !.pc = "cr_tags"])
  /\ UNCHANGED <<todoTags, dailyStreaks, userPoints, pointHistory, now, runtime,
                 reminderVars, rewarded>>

\* the insert into todo_tags
createTodo_tags(r) ==
  LET q == reqs[r] IN
  /\ q.pc = "cr_tags"
  /\ IF todos[q.tid] = Nil
     THEN \* todo_tags.todo_id references a todo that is gone
          /\ SetReq(r, Caught(q))
          /\ UNCHANGED todoTags
     ELSE /\ todoTags' = [todoTags EXCEPT ![q.tid] =
                            CreateTags(q.task.type, q.task.priority, q.task.isUrgent)]
          /\ SetReq(r, IF q.task.type = "daily" THEN [q EXCEPT !.pc = "cr_streak"]
                       ELSE Finish(q, "201"))
  /\ UNCHANGED <<todos, dailyStreaks, userPoints, pointHistory, nextId, now, runtime,
                 reminderVars, rewarded>>

\* the insert into daily_streaks
createTodo_streak(r) ==
  LET q == reqs[r] IN
  /\ q.pc = "cr_streak"
  /\ IF todos[q.tid] = Nil \/ dailyStreaks[StreakKey(q)] # Nil
     THEN /\ SetReq(r, Caught(q))
          /\ UNCHANGED dailyStreaks
     ELSE /\ dailyStreaks' = [dailyStreaks EXCEPT ![StreakKey(q)] = StreakRow(0, 0, NoDate)]
          /\ SetReq(r, Finish(q, "201"))
  /\ UNCHANGED <<todos, todoTags, userPoints, pointHistory, nextId, now, runtime,
                 reminderVars, rewarded>>

(***************************************************************************)
(* Direct calls of the data service                                        *)
(***************************************************************************)
addUserPoints(r, e, pointsToAdd) ==
  /\ Free(r)
  /\ SetReq(r, [Begin("addUserPoints", NoTodoId, e) EXCEPT
                  !.pts = pointsToAdd, !.acctKey = <<e, TheWorld, TheRoom>>,
                  !.pc = "ap_select"])
  /\ UNCHANGED <<storeVars, now, runtime, reminderVars, rewarded>>

updateStreak(r, t, e, increment) ==
  /\ Free(r)
  /\ SetReq(r, [Begin("updateStreak", t, e) EXCEPT !.inc = increment, !.pc = "us_select"])
  /\ UNCHANGED <<storeVars, now, runtime, reminderVars, rewarded>>

getOrCreateStreak(r, t, e) ==
  /\ Free(r)
  /\ SetReq(r, [Begin("getOrCreateStreak", t, e) EXCEPT !.pc = "us_select"])
  /\ UNCHANGED <<storeVars, now, runtime, reminderVars, rewarded>>

(***************************************************************************)
(* Time passes.                                                            *)
(***************************************************************************)
Tick(limit) ==
  /\ now < limit
  /\ now' = now + 1
  /\ UNCHANGED <<storeVars, reqs, reminderVars, rewarded, runtime>>

(***************************************************************************)
(* TodoReminderService.  Time is counted in hours.  A scan runs to its end *)
(* before the clock moves on, so the timer never fires during a scan.      *)
(***************************************************************************)
\* faulty variant, for sensitivity runs: the first tick is due at once
nextTick_Immediate(clock) == clock

\* setInterval(..., CHECK_INTERVAL): the next tick is one interval away
nextTick(clock) == clock + CHECK_INTERVAL

startTimer ==
  /\ timer = Nil
  /\ timer' = [next |-> nextTick(now)]
  /\ svc' = [stopped |-> FALSE, lastTick |-> NoDate]
  /\ UNCHANGED <<storeVars, now, runtime, reqs, scan, sent, rewarded>>

\* faulty variant, for sensitivity runs: stop leaves the interval running
stopTimer_Keep(tm) == tm

\* if (this.timer) { clearInterval(this.timer); this.timer = null }
stopTimer(tm) == IF tm # Nil THEN Nil ELSE tm

stop ==
  /\ timer' = stopTimer(timer)
  /\ svc' = [stopped |-> TRUE, lastTick |-> IF timer' = Nil THEN NoDate ELSE svc.lastTick]
  /\ UNCHANGED <<storeVars, now, runtime, reqs, scan, sent, rewarded>>

\* faulty variant, for sensitivity runs: completed tasks are not filtered out
getOverdueTodos_Completed(clock) ==
  {t \in TodoIds : /\ todos[t] # Nil
                   /\ todos[t].type = "one-off"
                   /\ todos[t].dueDate # NoDate
                   /\ todos[t].dueDate < clock}

\* the WHERE clause of getOverdueTodos
getOverdueTodos(clock) ==
  {t \in TodoIds : /\ todos[t] # Nil
                   /\ todos[t].type = "one-off"
                   /\ ~todos[t].isCompleted
                   /\ todos[t].dueDate # NoDate
                   /\ todos[t].dueDate < clock}

\* faulty variant, for sensitivity runs: a task never reminded of counts as in cooldown
InCooldown_Unstamped(todo, clock) ==
  \/ ~Has(todo.metadata, "lastReminderSent")
  \/ clock - todo.metadata.lastReminderSent < REMINDER_COOLDOWN

\* faulty variant, for sensitivity runs: the test compares with the check interval
InCooldown_OneInterval(todo, clock) ==
  /\ Has(todo.metadata, "lastReminderSent")
  /\ clock - todo.metadata.lastReminderSent < CHECK_INTERVAL

\* the test that skips a task of the scan
InCooldown(todo, clock) ==
  /\ Has(todo.metadata, "lastReminderSent")
  /\ clock - todo.metadata.lastReminderSent < REMINDER_COOLDOWN

\* The interval fires: the timer is due again one interval later, whatever
\* becomes of the scan.
TimerFires ==
  /\ timer # Nil
  /\ timer.next = now
  /\ scan = Nil
  /\ timer' = [next |-> nextTick(now)]
  /\ svc' = [svc EXCEPT !.lastTick = now]
  /\ UNCHANGED <<storeVars, now, runtime, reqs, sent, rewarded>>

\* The overdue tasks are read, and those not in their cooldown remain to be
\* reminded of, in the order the store returned them.
checkOverdueTasks_fetch ==
  /\ TimerFires
  /\ LET due == {t \in getOverdueTodos(now) : ~InCooldown(todos[t], now)} IN
     scan' = IF due = {} THEN Nil
             ELSE [pc |-> "send", now |-> now, rows |-> [t \in due |-> todos[t]],
                   rest |-> due, cur |-> NoTodoId]

\* getOverdueTodos throws: caught and logged
checkOverdueTasks_fetchThrows ==
  /\ TimerFires
  /\ scan' = Nil

checkOverdueTasks ==
  \/ checkOverdueTasks_fetch
  \/ checkOverdueTasks_fetchThrows

\* if (!todo.roomId || !todo.dueDate) return
NothingToSend(todo) == todo.roomId = NoRoom \/ todo.dueDate = NoDate

sendReminder_emit ==
  /\ scan # Nil
  /\ scan.pc = "send"
  /\ \E t \in scan.rest :
       \/ /\ NothingToSend(scan.rows[t])
          /\ scan' = [scan EXCEPT !.pc = "update", !.cur = t]
          /\ UNCHANGED sent
       \/ /\ ~NothingToSend(scan.rows[t])
          /\ Len(sent) < MaxReminders
          /\ sent' = Append(sent, [todo |-> t, at |-> now])
          /\ scan' = [scan EXCEPT !.pc = "update", !.cur = t]
  /\ UNCHANGED <<storeVars, now, runtime, reqs, timer, svc, rewarded>>

\* emitEvent throws: the catch of checkOverdueTasks ends the scan
sendReminder_throws ==
  /\ scan # Nil
  /\ scan.pc = "send"
  /\ \E t \in scan.rest : ~NothingToSend(scan.rows[t])
  /\ scan' = Nil
  /\ UNCHANGED <<storeVars, now, runtime, reqs, timer, sent, svc, rewarded>>

sendReminder ==
  \/ sendReminder_emit
  \/ sendReminder_throws

checkOverdueTasks_stamp ==
  /\ scan # Nil
  /\ scan.pc = "update"
  /\ todos' = updateTodoRows(todos, scan.cur,
                [metadata |-> Put(scan.rows[scan.cur].metadata, "lastReminderSent", now)])
  /\ scan' = IF scan.rest = {scan.cur} THEN Nil
             ELSE [scan EXCEPT !.pc = "send", !.rest = @ \ {scan.cur}, !.cur = NoTodoId]
  /\ UNCHANGED <<todoTags, dailyStreaks, userPoints, pointHistory, nextId, now, runtime, reqs,
                 timer, sent, svc, rewarded>>

\* updateTodo throws: the catch of checkOverdueTasks ends the scan
checkOverdueTasks_stampThrows ==
  /\ scan # Nil
  /\ scan.pc = "update"
  /\ scan' = Nil
  /\ UNCHANGED <<storeVars, now, runtime, reqs, timer, sent, svc, rewarded>>

checkOverdueTasks_update ==
  \/ checkOverdueTasks_stamp
  \/ checkOverdueTasks_stampThrows

(***************************************************************************)
(* The state after construction: an empty store, no request, no timer.     *)
(***************************************************************************)
Init ==
  /\ todos = [t \in TodoIds |-> Nil]
  /\ todoTags = [t \in TodoIds |-> {}]
  /\ dailyStreaks = [k \in TodoIds \X Entities |-> Nil]
  /\ userPoints = [k \in Entities \X Worlds \X Rooms |-> Nil]
  /\ pointHistory = <<>>
  /\ nextId = 1
  /\ now = 1
  /\ reqs = [r \in Slots |-> Idle]
  /\ timer = Nil
  /\ scan = Nil
  /\ sent = <<>>
  /\ svc = [stopped |-> FALSE, lastTick |-> NoDate]
  /\ rewarded = [t \in TodoIds |-> FALSE]
  /\ runtime = NoPlugin

(***************************************************************************)
(* The steps every handler in flight may take.                             *)
(***************************************************************************)
PointsSteps(r) ==
  \/ addUserPoints_select(r)
  \/ addUserPoints_insert(r)
  \/ addUserPoints_update(r)
  \/ addUserPoints_history(r)

StreakSteps(r) ==
  \/ getOrCreateStreak_select(r)
  \/ getOrCreateStreak_insert(r)
  \/ updateStreak_update(r)

CompleteSteps(r) ==
  \/ RestComplete_update(r)
  \/ ActComplete_update(r)

CreateSteps(r) ==
  \/ createTodo_tags(r)
  \/ createTodo_streak(r)

Step(r) ==
  \/ PointsSteps(r)
  \/ StreakSteps(r)
  \/ CompleteSteps(r)
  \/ CreateSteps(r)
  \/ Uncomplete_update(r)
  \/ deleteTodo(r)

(***************************************************************************)
(* Spec: requests are served one at a time, each handler to its end.       *)
(***************************************************************************)
Priorities == {1, 4}
DueDates == {NoDate, 0, 2}

NewTodo(r) ==
  \/ CreateTodo(r, "daily", 0, FALSE, NoDate)
  \/ CreateTodo(r, "aspirational", 0, FALSE, NoDate)
  \/ \E p \in Priorities, u \in BOOLEAN, d \in DueDates : CreateTodo(r, "one-off", p, u, d)

Next ==
  \/ \E r \in Slots : Quiescent /\ nextId <= MaxTodos /\ NewTodo(r)
  \/ \E r \in Slots, t \in TodoIds, e \in {"user", NoEntity} :
       Quiescent /\ Room(Limits) /\ RestComplete(r, t, e)
  \/ \E r \in Slots, t \in TodoIds :
       Quiescent /\ Room(Limits) /\ ActComplete(r, t, "user")
  \/ \E r \in Slots, t \in TodoIds : Quiescent /\ Uncomplete(r, t)
  \/ \E r \in Slots : Quiescent /\ resetDailyTodos(r, TheAgent)
  \/ \E r \in Slots, t \in TodoIds : Quiescent /\ DeleteTodo(r, t)
  \/ \E r \in Slots : Step(r)
  \/ \E r \in Slots : Retire(r)

Spec == Init /\ [][Next]_vars

(***************************************************************************)
(* Claims checked under Spec.                                              *)
(***************************************************************************)
Rejections == {"400", "404", "COMPLETE_TODO_NOT_FOUND", "COMPLETE_TODO_NO_TASKS"}
IsDaily(t) == t \in TodoIds /\ todos[t] # Nil /\ todos[t].type = "daily"
UserAccount == <<"user", TheWorld, TheRoom>>
LastTransaction == pointHistory[Len(pointHistory)]

\* C1: a completion request (action or REST) for a daily task that is issued
\* after a successful completion of the task, with no daily reset and no
\* uncomplete in between, is rejected at once, and the step that answers it
\* appends no transaction, changes no balance and no streak.
C1_SecondCompletionRejected ==
  [][\A r \in Slots :
       ( /\ reqs[r].pc = "idle"
         /\ IsCompletion(reqs'[r])
         /\ reqs'[r].afterReward
         /\ IsDaily(reqs'[r].tid) )
       => ( /\ reqs'[r].pc = "done"
            /\ reqs'[r].res \in Rejections
            /\ UNCHANGED <<pointHistory, userPoints, dailyStreaks>> )]_vars

C1_Witness ==
  \E r \in Slots :
    /\ reqs[r].kind = "restComplete"
    /\ reqs[r].afterReward
    /\ IsDaily(reqs[r].tid)
    /\ reqs[r].res = "400"
    /\ Len(pointHistory) = 1

\* C4: between requests, the balance of every points account is the sum of
\* the amounts of the transactions recorded for it.
C4_BalanceIsLedgerSum ==
  Quiescent =>
    \A a \in DOMAIN userPoints :
      userPoints[a] # Nil => userPoints[a].currentPoints = SumPoints(HistoryOf(a))

C4_Witness ==
  /\ Quiescent
  /\ Len(HistoryOf(UserAccount)) = 2
  /\ userPoints[UserAccount].currentPoints > 0
  /\ \E i \in 1..Len(pointHistory) : pointHistory[i].todoId = NoTodoId

\* C8: every completion of a one-off task with context, by the action or by
\* the route, awards 5 points when the due date is past and
\* (5 - priority) * 10 (+ 10 if urgent) when it is in the future or absent,
\* and appends one transaction of that amount.
C8_OneOffPoints ==
  \A r \in Slots :
    LET q == reqs[r]
        task == todos[q.tid]
        expected == IF task.dueDate # NoDate /\ task.dueDate < q.at
                    THEN 5
                    ELSE (5 - task.priority) * 10 + (IF task.isUrgent THEN 10 ELSE 0)
    IN ( /\ IsCompletion(q) /\ Succeeded(q) /\ q.entity # NoEntity
         /\ todos[q.tid] # Nil /\ task.type = "one-off" )
       => ( /\ q.pts = expected
            /\ Len(pointHistory) = q.h0 + 1
            /\ LastTransaction = Transaction(UserAccount, q.tid, expected) )

\* C9: completing an incomplete aspirational task with context awards 50
\* points, appends one transaction of amount 50 linked to the task, and
\* leaves the task completed.
C9_AspirationalFifty ==
  \A r \in Slots :
    LET q == reqs[r]
        task == todos[q.tid]
    IN ( /\ IsCompletion(q) /\ Succeeded(q) /\ q.entity # NoEntity
         /\ todos[q.tid] # Nil /\ task.type = "aspirational" )
       => ( /\ q.pts = 50
            /\ Len(pointHistory) = q.h0 + 1
            /\ LastTransaction = Transaction(UserAccount, q.tid, 50)
            /\ Balance(UserAccount) = q.b0 + 50
            /\ task.isCompleted
            /\ task.metadata.pointsAwarded = 50 )

C9_Witness ==
  \E r \in Slots :
    /\ reqs[r].kind = "actComplete"
    /\ Succeeded(reqs[r])
    /\ todos[reqs[r].tid] # Nil
    /\ todos[reqs[r].tid].type = "aspirational"
    /\ Len(pointHistory) = 2

(***************************************************************************)
(* DailySpec: one daily task, completed once a day by the same entity with *)
(* full context (by the action or by the route), the daily reset running   *)
(* after each completed day, and nothing else.                             *)
(***************************************************************************)
DailyLimits == [hist |-> MaxDaily, streak |-> MaxDaily]

DailyNext ==
  \/ \E r \in Slots : Quiescent /\ nextId = 1 /\ CreateTodo(r, "daily", 0, FALSE, NoDate)
  \/ \E r \in Slots : Quiescent /\ Room(DailyLimits) /\ RestComplete(r, 1, "user")
  \/ \E r \in Slots : Quiescent /\ Room(DailyLimits) /\ ActComplete(r, 1, "user")
  \/ \E r \in Slots :
       Quiescent /\ ResetTargets(TheAgent) # {} /\ resetDailyTodos(r, TheAgent)
  \/ \E r \in Slots : PointsSteps(r) \/ StreakSteps(r) \/ CompleteSteps(r) \/ CreateSteps(r)
  \/ \E r \in Slots : Retire(r)

DailySpec == Init /\ [][DailyNext]_vars

\* C7: the k-th completion (the one issued with k - 1 transactions in the
\* ledger) brings the streak to k and awards 10 points for k = 1 and
\* 10 + min(5 * (k - 1), 50) for k > 1, as one transaction.
StreakAward(k) == IF k = 1 THEN 10 ELSE 10 + Min(5 * (k - 1), 50)

C7_DailyStreakAwards ==
  \A r \in Slots :
    LET q == reqs[r]
        k == q.h0 + 1
    IN (IsCompletion(q) /\ Succeeded(q))
       => ( /\ q.newStreak = k
            /\ dailyStreaks[<<q.tid, "user">>].currentStreak = k
            /\ q.pts = StreakAward(k)
            /\ Len(pointHistory) = k
            /\ LastTransaction = Transaction(UserAccount, q.tid, StreakAward(k))
            /\ Balance(UserAccount) = q.b0 + StreakAward(k) )

C7_Witness ==
  \E r \in Slots :
    /\ IsCompletion(reqs[r])
    /\ Succeeded(reqs[r])
    /\ reqs[r].newStreak = 12
    /\ reqs[r].pts = 60
    /\ \E i \in 1..Len(pointHistory) : pointHistory[i].points = 15
    /\ \E i \in 1..Len(pointHistory) : pointHistory[i].points = 20

(***************************************************************************)
(* RaceSpec: one daily or aspirational task and completion requests with   *)
(* context whose storage steps interleave; the task is never reopened.     *)
(***************************************************************************)
AllReturned == \A r \in Slots : ~Busy(r)

RaceNext ==
  \/ \E r \in Slots : Quiescent /\ nextId = 1 /\ CreateTodo(r, "daily", 0, FALSE, NoDate)
  \/ \E r \in Slots :
       Quiescent /\ nextId = 1 /\ CreateTodo(r, "aspirational", 0, FALSE, NoDate)
  \/ \E r \in Slots : Room(Limits) /\ RestComplete(r, 1, "user")
  \/ \E r \in Slots : Room(Limits) /\ ActComplete(r, 1, "user")
  \/ \E r \in Slots : PointsSteps(r) \/ StreakSteps(r) \/ CompleteSteps(r) \/ CreateSteps(r)
  \/ \E r \in Slots : Retire(r)

RaceSpec == Init /\ [][RaceNext]_vars

\* C2: of two completion requests for the same incomplete task that run
\* concurrently at most one wins: once both have returned, one transaction
\* is recorded for the task, the balance has grown by one award, and the
\* streak of a daily task has grown by 1.
C2_OneCompletionWins ==
  (AllReturned /\ todos[1] # Nil /\ todos[1].isCompleted) =>
    /\ Cardinality({r \in Slots : IsCompletion(reqs[r]) /\ Succeeded(reqs[r])}) <= 1
    /\ Len(HistoryFor(1)) = 1
    /\ Balance(UserAccount) = (IF todos[1].type = "daily" THEN 10 ELSE 50)
    /\ todos[1].type = "daily" => dailyStreaks[<<1, "user">>].currentStreak = 1

(***************************************************************************)
(* LedgerSpec: addUserPoints called directly, one call at a time.          *)
(* LedgerRaceSpec: the same calls with their storage steps interleaved.    *)
(***************************************************************************)
Deltas == {-5, 0, 10}
RaceDeltas == {5, 10}

LedgerNext ==
  \/ \E r \in Slots, e \in Entities, d \in Deltas :
       Quiescent /\ Len(pointHistory) < MaxLedger /\ addUserPoints(r, e, d)
  \/ \E r \in Slots : PointsSteps(r)
  \/ \E r \in Slots : Retire(r)

LedgerSpec == Init /\ [][LedgerNext]_vars

LedgerRaceNext ==
  \/ \E r \in Slots, d \in RaceDeltas :
       Len(pointHistory) < MaxLedger /\ addUserPoints(r, "user", d)
  \/ \E r \in Slots : PointsSteps(r)
  \/ \E r \in Slots : Retire(r)

LedgerRaceSpec == Init /\ [][LedgerRaceNext]_vars

\* C3: concurrent addUserPoints calls on one account lose no update: once
\* all calls have returned, every call has appended its transaction and the
\* balance is the initial value (none) plus the sum of all deltas.
C3_NoLostUpdate ==
  AllReturned =>
    /\ \A r \in Slots : reqs[r].pc = "done" => reqs[r].res = "ok"
    /\ Balance(UserAccount) = SumPoints(HistoryOf(UserAccount))

\* C5: whatever the deltas of a sequence of addUserPoints calls (positive,
\* zero or negative), totalPointsEarned of the account is the sum of the
\* positive deltas, hence never decreases.
C5_TotalEarnedIsPositiveSum ==
  Quiescent =>
    \A a \in DOMAIN userPoints :
      userPoints[a] # Nil => userPoints[a].totalPointsEarned = SumPositive(HistoryOf(a))

(***************************************************************************)
(* StreakSpec: one daily task; updateStreak(true), updateStreak(false),    *)
(* getOrCreateStreak, completions and daily resets, steps interleaved.     *)
(***************************************************************************)
StreakLimits == [hist |-> MaxStreakAwards, streak |-> MaxStreak]

StreakNext ==
  \/ \E r \in Slots : Quiescent /\ nextId = 1 /\ CreateTodo(r, "daily", 0, FALSE, NoDate)
  \/ \E r \in Slots : Room(StreakLimits) /\ RestComplete(r, 1, "user")
  \/ \E r \in Slots : Room(StreakLimits) /\ ActComplete(r, 1, "user")
  \/ \E r \in Slots : resetDailyTodos(r, TheAgent)
  \/ \E r \in Slots : Room(StreakLimits) /\ updateStreak(r, 1, "user", TRUE)
  \/ \E r \in Slots : updateStreak(r, 1, "user", FALSE)
  \/ \E r \in Slots : getOrCreateStreak(r, 1, "user")
  \/ \E r \in Slots : PointsSteps(r) \/ StreakSteps(r) \/ CompleteSteps(r) \/ CreateSteps(r)
  \/ \E r \in Slots : Retire(r)

StreakSpec == Init /\ [][StreakNext]_vars

\* C6: every streak record has longestStreak >= currentStreak >= 0, in every
\* reachable state.
C6_LongestAtLeastCurrent ==
  \A k \in DOMAIN dailyStreaks :
    dailyStreaks[k] # Nil =>
      /\ dailyStreaks[k].longestStreak >= dailyStreaks[k].currentStreak
      /\ dailyStreaks[k].currentStreak >= 0

C6_Witness ==
  /\ dailyStreaks[<<1, "user">>] # Nil
  /\ dailyStreaks[<<1, "user">>].currentStreak = 1
  /\ dailyStreaks[<<1, "user">>].longestStreak = 2
  /\ \E r \in Slots : reqs[r].kind = "updateStreak" /\ reqs[r].pc = "done"
  /\ \E r \in Slots : IsCompletion(reqs[r]) /\ Busy(r)

(***************************************************************************)
(* ReminderSpec: one-off tasks with a due date, the reminder service and   *)
(* the clock.                                                              *)
(***************************************************************************)
ReminderDueDates == {0, 3}

ReminderNext ==
  \/ \E r \in Slots, d \in ReminderDueDates :
       Quiescent /\ scan = Nil /\ nextId <= MaxTodos /\ CreateTodo(r, "one-off", 0, FALSE, d)
  \/ \E r \in Slots : createTodo_tags(r)
  \/ \E r \in Slots : Retire(r)
  \/ startTimer
  \/ stop
  \/ checkOverdueTasks
  \/ sendReminder
  \/ checkOverdueTasks_update
  \/ scan = Nil /\ (timer # Nil => now < timer.next) /\ Tick(MaxClock)

ReminderSpec == Init /\ [][ReminderNext]_vars

\* C10: any two reminders emitted for the same task are at least
\* REMINDER_COOLDOWN apart, also over scans in which the notification or
\* the metadata update fails.
C10_OncePerCooldown ==
  \A i, j \in DOMAIN sent :
    (i < j /\ sent[i].todo = sent[j].todo) =>
      sent[j].at - sent[i].at >= REMINDER_COOLDOWN

(***************************************************************************)
(* ScanSpec: several one-off tasks with a due date, the reminder service   *)
(* started and stopped at will, scans whose notification or store calls    *)
(* may throw, over a few hours.                                            *)
(***************************************************************************)
ScanSteps ==
  \/ checkOverdueTasks
  \/ sendReminder
  \/ checkOverdueTasks_update

ClockTick(limit) == scan = Nil /\ (timer # Nil => now < timer.next) /\ Tick(limit)

ScanNext ==
  \/ \E r \in Slots, d \in ReminderDueDates :
       Quiescent /\ scan = Nil /\ CreateTodo(r, "one-off", 0, FALSE, d)
  \/ \E r \in Slots : createTodo_tags(r)
  \/ \E r \in Slots : Retire(r)
  \/ startTimer
  \/ stop
  \/ ScanSteps
  \/ ClockTick(MaxScanClock)

ScanSpec == Init /\ [][ScanNext]_vars

RecentlyReminded(t) ==
  /\ todos[t] # Nil
  /\ Has(todos[t].metadata, "lastReminderSent")
  /\ now - todos[t].metadata.lastReminderSent < REMINDER_COOLDOWN

ReminderEmitted(t) == Len(sent') = Len(sent) + 1 /\ sent'[Len(sent')].todo = t

\* C11: no step of a scan emits a reminder for, or changes the metadata of,
\* a task whose lastReminderSent is less than 24 hours before the scan's now.
C11_CooldownSkips ==
  [][\A t \in TodoIds :
       RecentlyReminded(t) =>
         /\ ~ReminderEmitted(t)
         /\ todos'[t] # Nil
         /\ todos'[t].metadata = todos[t].metadata]_vars

C11_Witness ==
  \E t \in TodoIds :
    /\ RecentlyReminded(t)
    /\ t \in getOverdueTodos(now)
    /\ todos[t].metadata.lastReminderSent < now
    /\ svc.lastTick = now
    /\ scan = Nil

\* reminded in the scan in flight, and stamped, as the next state has it
DoneInScan(t) ==
  /\ \E i \in DOMAIN sent' : sent'[i] = [todo |-> t, at |-> scan.now]
  /\ todos'[t] # Nil
  /\ Has(todos'[t].metadata, "lastReminderSent")
  /\ todos'[t].metadata.lastReminderSent = scan.now

\* C12: an error raised for one task of a scan does not abort the scan: when
\* the scan ends, every other task of its fetch (outside its cooldown, with a
\* room) has been reminded and stamped in that tick, so at most the failing
\* task is left out.
C12_ScanSurvivesTaskError ==
  [][(scan # Nil /\ scan' = Nil) =>
       Cardinality({t \in DOMAIN scan.rows : ~DoneInScan(t)}) <= 1]_vars

(***************************************************************************)
(* RoomlessSpec: the scans of ScanSpec over a store that holds an overdue  *)
(* task without a room, the input of the service's own test 'should skip   *)
(* tasks without roomId'.  (The todos table declares room_id NOT NULL, so   *)
(* no request of this model creates such a row.)                           *)
(***************************************************************************)
RoomlessTodo == [TodoRow("one-off", TheAgent, DefaultPriority, FALSE, 0, EmptyObj)
                   EXCEPT !.roomId = NoRoom]

RoomlessInit ==
  /\ todos = [t \in TodoIds |-> IF t = 1 THEN RoomlessTodo ELSE Nil]
  /\ todoTags = [t \in TodoIds |-> {}]
  /\ dailyStreaks = [k \in TodoIds \X Entities |-> Nil]
  /\ userPoints = [k \in Entities \X Worlds \X Rooms |-> Nil]
  /\ pointHistory = <<>>
  /\ nextId = 2
  /\ now = 1
  /\ reqs = [r \in Slots |-> Idle]
  /\ timer = Nil
  /\ scan = Nil
  /\ sent = <<>>
  /\ svc = [stopped |-> FALSE, lastTick |-> NoDate]
  /\ rewarded = [t \in TodoIds |-> FALSE]
  /\ runtime = NoPlugin

RoomlessSpec == RoomlessInit /\ [][ScanNext]_vars

LastReminderSent(T, t) ==
  IF T[t] # Nil /\ Has(T[t].metadata, "lastReminderSent")
  THEN T[t].metadata.lastReminderSent ELSE NoDate

TickBegins == svc'.lastTick # NoDate /\ svc'.lastTick # svc.lastTick

\* C14: once stop() has returned, the timer is gone and no scan tick begins;
\* a further stop changes nothing; a scan in flight is left to finish.
C14_StopIsFinal ==
  [][svc.stopped =>
       /\ timer = Nil
       /\ ~TickBegins
       /\ scan = Nil => scan' = Nil
       /\ svc'.stopped => (timer' = timer /\ svc' = svc)]_vars

C14_Witness ==
  /\ svc.stopped
  /\ scan # Nil
  /\ scan.pc = "update"
  /\ Len(sent) = 1

\* C15: the timer started at time s is first due at s + CHECK_INTERVAL and
\* start runs no scan; a tick begins only when the timer is due, never
\* later, and leaves it due one interval on; the end of a scan, in an error
\* or not, leaves the timer as it is.
C15_TicksOnSchedule ==
  [][/\ (timer = Nil /\ timer' # Nil) =>
          (timer'.next = now + CHECK_INTERVAL /\ scan' = scan /\ ~TickBegins)
     /\ TickBegins =>
          (timer # Nil /\ timer.next = now /\ timer' # Nil
           /\ timer'.next = now + CHECK_INTERVAL)
     /\ (timer # Nil /\ now' # now) => now' <= timer.next
     /\ (scan # Nil /\ scan' = Nil) => timer' = timer]_vars

C15_Witness ==
  /\ timer # Nil
  /\ svc.lastTick = now
  /\ \E i \in DOMAIN sent :
       /\ sent[i].at = now - CHECK_INTERVAL
       /\ LastReminderSent(todos, sent[i].todo) = NoDate

(***************************************************************************)
(* LiveSpec: the reminder service running, never stopped, with store and   *)
(* notification calls that succeed.  The event loop runs a due timer and   *)
(* resumes an awaited call, hence the weak fairness of the scan's steps    *)
(* and of the clock.                                                       *)
(***************************************************************************)
LiveNext ==
  \/ \E r \in Slots, d \in ReminderDueDates :
       Quiescent /\ scan = Nil /\ nextId <= MaxTodos /\ CreateTodo(r, "one-off", 0, FALSE, d)
  \/ \E r \in Slots : createTodo_tags(r)
  \/ \E r \in Slots : Retire(r)
  \/ startTimer
  \/ checkOverdueTasks_fetch
  \/ sendReminder_emit
  \/ checkOverdueTasks_stamp
  \/ ClockTick(MaxScanClock)

LiveSpec ==
  /\ Init
  /\ [][LiveNext]_vars
  /\ WF_vars(ClockTick(MaxScanClock))
  /\ WF_vars(checkOverdueTasks_fetch)
  /\ WF_vars(sendReminder_emit)
  /\ WF_vars(checkOverdueTasks_stamp)

Reminded(t) == \E i \in DOMAIN sent : sent[i].todo = t

OverdueWithRoom(t) ==
  /\ todos[t] # Nil
  /\ todos[t].type = "one-off"
  /\ ~todos[t].isCompleted
  /\ todos[t].roomId # NoRoom
  /\ todos[t].dueDate # NoDate
  /\ todos[t].dueDate < now

\* C16: while the service runs and its calls succeed, every incomplete
\* overdue one-off task with a room is eventually reminded of, and every
\* emitted reminder is followed, within its tick, by the task's
\* lastReminderSent being set to the time of that tick.
C16_EventuallyReminded ==
  /\ \A t \in TodoIds :
       (OverdueWithRoom(t) /\ timer # Nil /\ timer.next <= MaxScanClock) ~> Reminded(t)
  /\ [][\A t \in TodoIds :
          /\ ReminderEmitted(t) => (scan' # Nil /\ scan'.pc = "update" /\ scan'.cur = t)
          /\ (scan # Nil /\ scan.pc = "update" /\ scan.cur = t) =>
               (now' = now /\ (scan' # scan => LastReminderSent(todos', t) = now))]_vars
  /\ (scan # Nil /\ scan.pc = "update") ~> (scan = Nil \/ scan.pc = "send")

C16_Witness ==
  \E t \in TodoIds : \E i \in DOMAIN sent :
    /\ sent[i].todo = t
    /\ todos[t].dueDate = 3
    /\ LastReminderSent(todos, t) = sent[i].at
    /\ scan = Nil

(***************************************************************************)
(* OverdueSpec: tasks of every type, with and without a due date, that are *)
(* completed through the route while the reminder service scans.           *)
(***************************************************************************)
OverdueNext ==
  \/ \E r \in Slots, type \in {"daily", "aspirational"} :
       Quiescent /\ scan = Nil /\ nextId <= MaxTodos /\ CreateTodo(r, type, 0, FALSE, NoDate)
  \/ \E r \in Slots, d \in DueDates :
       Quiescent /\ scan = Nil /\ nextId <= MaxTodos /\ CreateTodo(r, "one-off", 0, FALSE, d)
  \/ \E r \in Slots : CreateSteps(r)
  \/ \E r \in Slots, t \in TodoIds : Quiescent /\ RestComplete(r, t, NoEntity)
  \/ \E r \in Slots : RestComplete_update(r)
  \/ \E r \in Slots : Retire(r)
  \/ startTimer
  \/ ScanSteps
  \/ ClockTick(MaxScanClock)

OverdueSpec == Init /\ [][OverdueNext]_vars

OneOffPastDue(T, t, clock) ==
  /\ T[t] # Nil
  /\ T[t].type = "one-off"
  /\ ~T[t].isCompleted
  /\ T[t].dueDate # NoDate
  /\ T[t].dueDate < clock

\* C17: the tasks a tick fetches are one-off, not completed and due strictly
\* before the time of the call, and every such task outside its cooldown is
\* fetched; a reminder is emitted only for a task that was so when its scan
\* began, hence never for a task completed before, nor for a daily or
\* aspirational task or one without a due date.
C17_OverdueExactly ==
  [][/\ (TickBegins /\ scan' # Nil) =>
          DOMAIN scan'.rows =
            {t \in TodoIds : OneOffPastDue(todos, t, now) /\ ~RecentlyReminded(t)}
     /\ \A t \in TodoIds :
          ReminderEmitted(t) =>
            /\ scan # Nil
            /\ t \in DOMAIN scan.rows
            /\ OneOffPastDue(scan.rows, t, scan.now)]_vars

C17_Witness ==
  \E t \in TodoIds :
    /\ todos[t] # Nil
    /\ todos[t].type = "one-off"
    /\ todos[t].isCompleted
    /\ todos[t].dueDate = 0
    /\ svc.lastTick = now
    /\ scan = Nil
    /\ sent = <<>>

(***************************************************************************)
(* ResetSpec: several tasks of every type, completed through the route     *)
(* with or without context, and daily resets run for this agent and for    *)
(* another one, one request at a time.                                     *)
(***************************************************************************)
Agents == {TheAgent, "agent2"}

ResetNext ==
  \/ \E r \in Slots, type \in TaskTypes :
       Quiescent /\ CreateTodo(r, type, 0, FALSE, NoDate)
  \/ \E r \in Slots : CreateSteps(r)
  \/ \E r \in Slots, t \in TodoIds, e \in {"user", NoEntity} :
       Quiescent /\ Room(Limits) /\ RestComplete(r, t, e)
  \/ \E r \in Slots : PointsSteps(r) \/ StreakSteps(r) \/ RestComplete_update(r)
  \/ \E r \in Slots, a \in Agents : Quiescent /\ resetDailyTodos(r, a)
  \/ \E r \in Slots : Retire(r)

ResetSpec == Init /\ [][ResetNext]_vars

CompletedDailies(a) ==
  {t \in TodoIds : todos[t] # Nil /\ todos[t].agentId = a /\ todos[t].type = "daily"
                   /\ todos[t].isCompleted = TRUE}

ResetReturns(r) == reqs[r].pc = "idle" /\ reqs'[r].kind = "reset" /\ reqs'[r].pc = "done"

\* C18: a daily reset for an agent clears isCompleted and completedAt on the
\* completed daily tasks of that agent and on nothing else, returns their
\* number, and changes no streak, no account, no transaction and no tag;
\* with no completed daily task of the agent it returns 0 and changes nothing.
C18_ResetFrame ==
  [][\A r \in Slots :
       ResetReturns(r) =>
         LET hit == CompletedDailies(reqs'[r].entity) IN
         /\ reqs'[r].pts = Cardinality(hit)
         /\ \A t \in TodoIds :
              todos'[t] = IF t \in hit
                          THEN [todos[t] EXCEPT !.isCompleted = FALSE,
                                                !.completedAt = NoDate]
                          ELSE todos[t]
         /\ UNCHANGED <<todoTags, dailyStreaks, userPoints, pointHistory, nextId>>
         /\ hit = {} => (reqs'[r].pts = 0 /\ UNCHANGED storeVars)]_vars

C18_Witness ==
  /\ \E r \in Slots : reqs[r].kind = "reset" /\ reqs[r].pc = "done" /\ reqs[r].pts = 1
  /\ \E t \in TodoIds : todos[t] # Nil /\ todos[t].type = "one-off" /\ todos[t].isCompleted
  /\ \E t \in TodoIds :
       /\ todos[t] # Nil /\ todos[t].type = "daily" /\ ~todos[t].isCompleted
       /\ dailyStreaks[<<t, "user">>] # Nil
       /\ dailyStreaks[<<t, "user">>].currentStreak = 1

(***************************************************************************)
(* DaySpec: one daily task over a few days; time is counted in days here.  *)
(* The RESET_DAILY_TASKS worker runs the reset, the entity completes the   *)
(* task on some days and misses others.                                    *)
(***************************************************************************)
DayLimits == [hist |-> MaxDays, streak |-> MaxDays]

DayNext ==
  \/ \E r \in Slots : Quiescent /\ nextId = 1 /\ CreateTodo(r, "daily", 0, FALSE, NoDate)
  \/ \E r \in Slots : Quiescent /\ Room(DayLimits) /\ RestComplete(r, 1, "user")
  \/ \E r \in Slots : Quiescent /\ Room(DayLimits) /\ ActComplete(r, 1, "user")
  \/ \E r \in Slots : Quiescent /\ resetDailyTodos(r, TheAgent)
  \/ \E r \in Slots : PointsSteps(r) \/ StreakSteps(r) \/ CompleteSteps(r) \/ CreateSteps(r)
  \/ \E r \in Slots : Retire(r)
  \/ Quiescent /\ Tick(MaxDays)

DaySpec == Init /\ [][DayNext]_vars

\* the streak update of a completion whose task was last completed before
\* yesterday: a whole day has passed without a completion
CompletesAfterMiss(r) ==
  /\ reqs[r].pc = "us_update"
  /\ reqs'[r].pc # "us_update"
  /\ reqs[r].inc
  /\ reqs[r].streak.lastCompletedDate # NoDate
  /\ reqs[r].streak.lastCompletedDate < now - 1

\* C19: a streak does not carry over a missed day: the completion that
\* follows a day without a completion brings currentStreak to 1, and
\* longestStreak is kept.
C19_MissedDayRestartsStreak ==
  [][\A r \in Slots :
       CompletesAfterMiss(r) =>
         /\ dailyStreaks'[StreakKey(reqs[r])].currentStreak = 1
         /\ dailyStreaks'[StreakKey(reqs[r])].longestStreak =
              dailyStreaks[StreakKey(reqs[r])].longestStreak]_vars

(***************************************************************************)
(* FaultSpec: completions served one at a time, where any storage call of  *)
(* a completion may throw instead of taking effect.  The service methods   *)
(* log and rethrow, the handlers have one catch block around their body.   *)
(***************************************************************************)
StorageCalls ==
  {"us_select", "us_insert", "us_update", "ap_select", "ap_write", "ap_hist",
   "rc_update", "ac_update"}

\* the storage call the completion in slot r is waiting for rejects
storageThrows(r) ==
  /\ IsCompletion(reqs[r])
  /\ reqs[r].pc \in StorageCalls
  /\ Settle(r, Caught(reqs[r]))
  /\ UNCHANGED <<storeVars, now, runtime, reminderVars>>

\* a failed ledger append leaves the balance raised: retries are bounded by the balance
BalanceRoom ==
  \A k \in DOMAIN userPoints :
    userPoints[k] # Nil => userPoints[k].totalPointsEarned < MaxBalance

FaultNext ==
  \/ \E r \in Slots, type \in {"daily", "aspirational"} :
        Quiescent /\ nextId <= MaxTodos /\ CreateTodo(r, type, DefaultPriority, FALSE, NoDate)
  \/ \E r \in Slots, d \in DueDates :
        Quiescent /\ nextId <= MaxTodos /\ CreateTodo(r, "one-off", DefaultPriority, FALSE, d)
  \/ \E r \in Slots, t \in 1..MaxTodos, e \in {"user", NoEntity} :
        Quiescent /\ Room(Limits) /\ BalanceRoom /\ todos[t] # Nil /\ RestComplete(r, t, e)
  \/ \E r \in Slots, t \in 1..MaxTodos :
        Quiescent /\ Room(Limits) /\ BalanceRoom /\ todos[t] # Nil /\ ActComplete(r, t, "user")
  \/ \E r \in Slots : PointsSteps(r) \/ StreakSteps(r) \/ CompleteSteps(r) \/ CreateSteps(r)
  \/ \E r \in Slots : storageThrows(r)
  \/ \E r \in Slots : Retire(r)

FaultSpec == Init /\ [][FaultNext]_vars

\* the completion in slot r ends in this step and its storage call left no
\* trace in the store
EndsWithoutEffect(r) ==
  /\ IsCompletion(reqs[r])
  /\ reqs[r].pc \in StorageCalls
  /\ reqs'[r].pc = "done"
  /\ UNCHANGED storeVars

\* the ledger holds the transaction of the completion q, appended after q began
TransactionAppended(history, q) ==
  /\ Len(history) > q.h0
  /\ history[q.h0 + 1] = Transaction(<<q.entity, TheWorld, TheRoom>>, q.tid, q.pts)

\* C20: a completion whose storage call fails (streak update, task update
\* or ledger append) ends in a reported error and never in a success answer;
\* a success answer implies that the task is marked completed and, when
\* points were awarded, that the ledger transaction was appended.
C20_FailureIsReported ==
  [][\A r \in Slots :
       /\ EndsWithoutEffect(r) =>
            /\ reqs'[r].res = "error"
            /\ ~Succeeded(reqs'[r])
       /\ (IsCompletion(reqs'[r]) /\ Succeeded(reqs'[r])) =>
            /\ todos'[reqs'[r].tid].isCompleted
            /\ reqs'[r].pts > 0 => TransactionAppended(pointHistory', reqs'[r])]_vars

\* a completion fails at its ledger append after the task update went through
C20_Witness ==
  \E r \in Slots :
    /\ IsCompletion(reqs[r])
    /\ reqs[r].pc = "done"
    /\ reqs[r].res = "error"
    /\ todos[reqs[r].tid].isCompleted
    /\ Len(pointHistory) = reqs[r].h0

(***************************************************************************)
(* Claims about PUT /api/todos/:id/uncomplete, checked under Spec.         *)
(***************************************************************************)
\* the uncomplete request in slot r writes its update in this step
UncompleteWrites(r) ==
  /\ reqs[r].kind = "uncomplete"
  /\ reqs[r].pc = "un_update"
  /\ reqs'[r].pc = "done"

\* an uncomplete request for an existing, incomplete task t arrives in slot r
UncompleteOfIncomplete(r, t) ==
  /\ reqs[r].pc = "idle"
  /\ reqs'[r].kind = "uncomplete"
  /\ reqs'[r].tid = t
  /\ todos[t] # Nil
  /\ ~todos[t].isCompleted

\* C21: uncompleting a completed task sets isCompleted to false, clears
\* completedAt, removes the metadata keys pointsAwarded and completedToday,
\* and leaves accounts, ledger and streak records as they are; for a task
\* that is already incomplete the answer is an error and nothing is written.
C21_UncompleteFrame ==
  [][\A r \in Slots :
       /\ UncompleteWrites(r) =>
            LET t == reqs[r].tid IN
            /\ ~todos'[t].isCompleted
            /\ todos'[t].completedAt = NoDate
            /\ ~Has(todos'[t].metadata, "pointsAwarded")
            /\ ~Has(todos'[t].metadata, "completedToday")
            /\ reqs'[r].res = "200"
            /\ UNCHANGED <<userPoints, pointHistory, dailyStreaks, todoTags>>
       /\ \A t \in TodoIds :
            UncompleteOfIncomplete(r, t) =>
              /\ reqs'[r].pc = "done"
              /\ reqs'[r].res = "400"
              /\ UNCHANGED storeVars]_vars

\* a rewarded daily task has been uncompleted: its points are still in the ledger
C21_Witness ==
  \E r \in Slots :
    /\ reqs[r].kind = "uncomplete"
    /\ reqs[r].pc = "done"
    /\ reqs[r].res = "200"
    /\ todos[reqs[r].tid] # Nil
    /\ todos[reqs[r].tid].type = "daily"
    /\ ~todos[reqs[r].tid].isCompleted
    /\ HistoryFor(reqs[r].tid) # <<>>

(***************************************************************************)
(* Claims about PUT /api/todos/:id/complete without context, under Spec.   *)
(***************************************************************************)
\* the request in slot r is a completion over REST whose body names no entity
WithoutContext(q) == q.kind = "restComplete" /\ q.entity = NoEntity

MetadataStreak(task) == IF Has(task.metadata, "streak") THEN task.metadata.streak ELSE 0

\* C22: a completion over REST without context marks the task completed with
\* metadata.pointsAwarded = 0, appends nothing to the ledger, changes no
\* account and no streak record, and for a daily task raises the metadata
\* streak counter by exactly 1.
C22_NoContextNoPoints ==
  [][\A r \in Slots :
       /\ (WithoutContext(reqs[r]) /\ Busy(r)) =>
            /\ reqs[r].pc = "rc_update"
            /\ reqs'[r].pc = "done" =>
                 LET t == reqs[r].tid IN
                 /\ reqs'[r].res = "200"
                 /\ todos'[t].isCompleted
                 /\ todos'[t].metadata.pointsAwarded = 0
                 /\ todos[t].type = "daily" =>
                      MetadataStreak(todos'[t]) = MetadataStreak(todos[t]) + 1
                 /\ todos[t].type # "daily" =>
                      MetadataStreak(todos'[t]) = MetadataStreak(todos[t])
       /\ (WithoutContext(reqs'[r]) /\ reqs'[r].res \notin Rejections) =>
            UNCHANGED <<userPoints, pointHistory, dailyStreaks>>]_vars

\* a daily task completed without context a second time: metadata streak 2,
\* streak record and ledger untouched
C22_Witness ==
  \E r \in Slots :
    /\ WithoutContext(reqs[r])
    /\ reqs[r].pc = "done"
    /\ reqs[r].res = "200"
    /\ todos[reqs[r].tid] # Nil
    /\ todos[reqs[r].tid].type = "daily"
    /\ todos[reqs[r].tid].metadata.streak = 2
    /\ dailyStreaks[<<reqs[r].tid, TheAgent>>].currentStreak = 0
    /\ pointHistory = <<>>

(***************************************************************************)
(* StreakCallSpec: updateStreak and getOrCreateStreak called directly, one *)
(* call at a time, for a daily task and either entity.                     *)
(***************************************************************************)
StreakCallNext ==
  \/ \E r \in Slots : Quiescent /\ nextId = 1 /\ CreateTodo(r, "daily", 0, FALSE, NoDate)
  \/ \E r \in Slots, e \in Entities :
        Quiescent /\ todos[1] # Nil /\ Room(StreakLimits) /\ updateStreak(r, 1, e, TRUE)
  \/ \E r \in Slots, e \in Entities :
        Quiescent /\ todos[1] # Nil /\ updateStreak(r, 1, e, FALSE)
  \/ \E r \in Slots, e \in Entities :
        Quiescent /\ todos[1] # Nil /\ getOrCreateStreak(r, 1, e)
  \/ \E r \in Slots : StreakSteps(r) \/ CreateSteps(r)
  \/ \E r \in Slots : Retire(r)
  \/ Quiescent /\ Tick(MaxScanClock)

StreakCallSpec == Init /\ [][StreakCallNext]_vars

\* the call of updateStreak in slot r writes its update in this step
StreakWritten(r) ==
  /\ reqs[r].kind = "updateStreak"
  /\ reqs[r].pc = "us_update"
  /\ reqs'[r].pc = "done"

\* C23: updateStreak(.., true) sets currentStreak to old + 1, longestStreak
\* to max(old longest, old current + 1) and stamps lastCompletedDate;
\* updateStreak(.., false) sets currentStreak to 0 and leaves longestStreak
\* as it is; a record that does not exist is created with (0, 0) first.
C23_UpdateStreak ==
  [][\A r \in Slots :
       LET k == StreakKey(reqs[r])
           old == dailyStreaks[k]
           new == dailyStreaks'[k]
       IN
       /\ (StreakWritten(r) /\ reqs[r].inc) =>
            /\ new.currentStreak = old.currentStreak + 1
            /\ new.longestStreak =
                 (IF old.longestStreak > old.currentStreak + 1
                  THEN old.longestStreak ELSE old.currentStreak + 1)
            /\ new.lastCompletedDate = now
            /\ reqs'[r].newStreak = old.currentStreak + 1
       /\ (StreakWritten(r) /\ ~reqs[r].inc) =>
            /\ new.currentStreak = 0
            /\ new.longestStreak = old.longestStreak
            /\ new.lastCompletedDate = old.lastCompletedDate
            /\ reqs'[r].newStreak = 0
       /\ StreakWritten(r) =>
            \A o \in DOMAIN dailyStreaks : o # k => dailyStreaks'[o] = dailyStreaks[o]
       /\ (reqs[r].pc = "us_select" /\ old = Nil) => reqs'[r].pc = "us_insert"
       /\ reqs[r].pc = "us_insert" =>
            /\ new # Nil
            /\ new.currentStreak = 0
            /\ new.longestStreak = 0
            /\ reqs'[r].kind = "updateStreak" => reqs'[r].pc = "us_update"]_vars

\* after two completions a streak was reset: current 0, longest still 2
C23_Witness ==
  \E r \in Slots :
    /\ reqs[r].kind = "updateStreak"
    /\ reqs[r].pc = "done"
    /\ dailyStreaks[<<1, "user">>] # Nil
    /\ dailyStreaks[<<1, "user">>].currentStreak = 0
    /\ dailyStreaks[<<1, "user">>].longestStreak = 2

(***************************************************************************)
(* PointsSpec: TodoDataService.calculatePoints called on a task of any     *)
(* priority (0: unset), urgency and metadata streak, with any outcome; the *)
(* type of the second argument is erased at run time, so a caller can pass *)
(* a string that is none of the four outcomes.                             *)
(***************************************************************************)
CompletionStatuses == {"onTime", "late", "daily", "streakBonus"}
Outcomes == CompletionStatuses \cup {"skipped"}
AnyPriority == 0..4
AnyMetadata == {EmptyObj} \cup {[streak |-> n] : n \in 0..MaxDaily}

PointsInit ==
  /\ \E type \in TaskTypes, p \in AnyPriority, u \in BOOLEAN, m \in AnyMetadata :
        todos = [t \in TodoIds |->
                   IF t = 1 THEN TodoRow(type, TheAgent, p, u, NoDate, m) ELSE Nil]
  /\ todoTags = [t \in TodoIds |-> {}]
  /\ dailyStreaks = [k \in TodoIds \X Entities |-> Nil]
  /\ userPoints = [k \in Entities \X Worlds \X Rooms |-> Nil]
  /\ pointHistory = <<>>
  /\ nextId = 2
  /\ now = 1
  /\ reqs = [r \in Slots |-> Idle]
  /\ timer = Nil
  /\ scan = Nil
  /\ sent = <<>>
  /\ svc = [stopped |-> FALSE, lastTick |-> NoDate]
  /\ rewarded = [t \in TodoIds |-> FALSE]
  /\ runtime = NoPlugin

\* one call: the arguments and the returned number stay in the slot
CalculatePoints(r, t, completionStatus) ==
  LET q == Begin("calculatePoints", t, NoEntity) IN
  /\ Free(r)
  /\ SetReq(r, [Finish(q, "ok") EXCEPT
                  !.task = todos[t], !.ret = completionStatus,
                  !.pts = calculatePoints(todos[t], completionStatus)])
  /\ UNCHANGED <<storeVars, now, runtime, reminderVars, rewarded>>

PointsNext ==
  \/ \E r \in Slots, status \in Outcomes : Quiescent /\ CalculatePoints(r, 1, status)
  \/ \E r \in Slots : Retire(r)

PointsSpec == PointsInit /\ [][PointsNext]_vars

\* the call in slot r has returned
Calculated(q) == q.kind = "calculatePoints" /\ q.pc = "done"

EffectivePriority(task) == IF task.priority = 0 THEN 4 ELSE task.priority

\* the table of the specification
OnTimeTable(priority) ==
  CASE priority = 1 -> 40 [] priority = 2 -> 30 [] priority = 3 -> 20 [] priority = 4 -> 10

C25_OnTimeMonotone ==
  \A r \in Slots :
    (Calculated(reqs[r]) /\ reqs[r].ret = "onTime" /\ reqs[r].task.priority \in 1..4) =>
      LET task == reqs[r].task IN
      /\ \A lower \in 1..4 :
           lower > task.priority =>
             calculatePoints([task EXCEPT !.priority = lower], "onTime") <= reqs[r].pts
      /\ task.isUrgent =>
           reqs[r].pts > calculatePoints([task EXCEPT !.isUrgent = FALSE], "onTime")
      /\ ~task.isUrgent =>
           reqs[r].pts < calculatePoints([task EXCEPT !.isUrgent = TRUE], "onTime")

\* an urgent task of priority 2 has been rated
C25_Witness ==
  \E r \in Slots :
    /\ Calculated(reqs[r])
    /\ reqs[r].ret = "onTime"
    /\ reqs[r].task.priority = 2
    /\ reqs[r].task.isUrgent
    /\ reqs[r].pts = 40

\* C27: calculatePoints called with an outcome that is none of onTime, late,
\* daily, streakBonus fails with an invalid-outcome error and never returns 0.
\* The switch has no default branch: the call returns the initial 0.
C27_UnknownOutcomeFails ==
  \A r \in Slots :
    (Calculated(reqs[r]) /\ reqs[r].ret \notin CompletionStatuses) =>
      /\ reqs[r].res = "error"
      /\ reqs[r].pts # 0

(***************************************************************************)
(* The example calculations of the README, checked under Spec.             *)
(***************************************************************************)
\* the completion q of a task that is not urgent has earned points
RewardedCompletion(q) ==
  /\ IsCompletion(q)
  /\ Succeeded(q)
  /\ q.entity # NoEntity
  /\ todos[q.tid] # Nil
  /\ ~todos[q.tid].isUrgent

\* C26: as the README documents, a priority 1 one-off task awards 20 points
\* on time and 10 late, a priority 4 one-off task 5 on time and 2 late, a
\* daily task 10 points plus the streak bonus, an aspirational task 50.
\* calculatePoints gives 40 and 10 on time, and 5 late.
C26_ReadmePoints ==
  \A r \in Slots :
    RewardedCompletion(reqs[r]) =>
      LET q == reqs[r]
          task == todos[q.tid]
          late == task.dueDate # NoDate /\ q.at > task.dueDate
      IN
      /\ (task.type = "one-off" /\ task.dueDate # NoDate /\ task.priority = 1) =>
           q.pts = (IF late THEN 10 ELSE 20)
      /\ (task.type = "one-off" /\ task.dueDate # NoDate /\ task.priority = 4) =>
           q.pts = (IF late THEN 2 ELSE 5)
      /\ task.type = "daily" => q.pts >= 10
      /\ task.type = "aspirational" => q.pts = 50

(***************************************************************************)
(* TodoDataService.updateTodo called directly: the UPDATE of the row, and, *)
(* when the updates carry a tags list, the DELETE of the task's tag rows   *)
(* and the INSERT of one row per element of the list.  The three           *)
(* statements are not in a transaction.  An absent key of the updates      *)
(* object is an undefined field.                                           *)
(***************************************************************************)
ToSet(list) == {list[i] : i \in DOMAIN list}

\* unique_todo_tag: one row per (todo, tag)
HasDuplicates(list) == Cardinality(ToSet(list)) < Len(list)

\* the call returns or throws: its arguments stay in the slot with the outcome
updateTodo_returns(q, result) == [Finish(q, result) EXCEPT !.meta = q.meta]

\* updateData: the fields of the updates, without the tags
UpdateData(updates) == Del(updates, "tags")

updateTodo(r, t, updates) ==
  LET q == [Begin("updateTodo", t, NoEntity) EXCEPT !.meta = updates] IN
  /\ Free(r)
  /\ todos' = updateTodoRows(todos, t, UpdateData(updates))
  /\ SetReq(r, IF Has(updates, "tags") THEN [q EXCEPT !.pc = "ut_delete"]
               ELSE updateTodo_returns(q, "ok"))
  /\ UNCHANGED <<todoTags, dailyStreaks, userPoints, pointHistory, nextId, now, runtime,
                 reminderVars, rewarded>>

\* db.delete(todoTagsTable).where(eq(todoTagsTable.todoId, todoId))
updateTodo_deleteTags(r) ==
  LET q == reqs[r] IN
  /\ q.pc = "ut_delete"
  /\ todoTags' = [todoTags EXCEPT ![q.tid] = {}]
  /\ SetReq(r, IF Len(q.meta.tags) > 0 THEN [q EXCEPT !.pc = "ut_insert"]
               ELSE updateTodo_returns(q, "ok"))
  /\ UNCHANGED <<todos, dailyStreaks, userPoints, pointHistory, nextId, now, runtime,
                 reminderVars, rewarded>>

\* db.insert(todoTagsTable).values(updates.tags.map(...))
updateTodo_insertTags(r) ==
  LET q == reqs[r] IN
  /\ q.pc = "ut_insert"
  /\ IF todos[q.tid] = Nil \/ HasDuplicates(q.meta.tags)
     THEN \* todo_tags.todo_id references no todo, or unique_todo_tag: the insert throws
          /\ SetReq(r, updateTodo_returns(q, "error"))
          /\ UNCHANGED todoTags
     ELSE /\ todoTags' = [todoTags EXCEPT ![q.tid] = ToSet(q.meta.tags)]
          /\ SetReq(r, updateTodo_returns(q, "ok"))
  /\ UNCHANGED <<todos, dailyStreaks, userPoints, pointHistory, nextId, now, runtime,
                 reminderVars, rewarded>>

UpdateSteps(r) ==
  \/ updateTodo_deleteTags(r)
  \/ updateTodo_insertTags(r)

(***************************************************************************)
(* UpdateSpec: one task is created, then updateTodo is called, one call at *)
(* a time, for that task and for an id that matches no task.               *)
(***************************************************************************)
FieldUpdates ==
  {EmptyObj,
   [priority |-> 1],
   [isUrgent |-> FALSE, dueDate |-> 2],
   [isCompleted |-> TRUE, completedAt |-> 1, metadata |-> [note |-> 1]]}

TagLists == {<<>>, <<"priority-1">>, <<"TODO", "urgent">>, <<"urgent", "urgent">>}

UpdateInputs ==
  FieldUpdates \cup {Put(u, "tags", l) : u \in FieldUpdates, l \in TagLists}

UpdateNext ==
  \/ \E r \in Slots : Quiescent /\ nextId = 1 /\ CreateTodo(r, "one-off", 4, TRUE, 0)
  \/ \E r \in Slots, t \in TodoIds, u \in UpdateInputs :
        Quiescent /\ nextId > 1 /\ updateTodo(r, t, u)
  \/ \E r \in Slots : createTodo_tags(r) \/ UpdateSteps(r)
  \/ \E r \in Slots : Retire(r)

UpdateSpec == Init /\ [][UpdateNext]_vars

\* a call of updateTodo for task t arrives in slot r
UpdateCalled(r, t) ==
  /\ reqs[r].pc = "idle"
  /\ reqs'[r].kind = "updateTodo"
  /\ reqs'[r].tid = t

UpdateReturned(q) == q.kind = "updateTodo" /\ q.pc = "done"

\* C28: updateTodo called with an id that matches no task reports a failure
\* to its caller, never success, and leaves the store as it is, tag table
\* included.  The UPDATE that matches no row is no error: without tags, or
\* with an empty list, the call returns true.
C28_UnknownIdFails ==
  [][\A r \in Slots :
       /\ \A t \in TodoIds :
            (UpdateCalled(r, t) /\ todos[t] = Nil) => UNCHANGED storeVars
       /\ (UpdateReturned(reqs'[r]) /\ todos'[reqs'[r].tid] = Nil) =>
            /\ reqs'[r].res = "error"
            /\ UNCHANGED storeVars]_vars

\* C29: updateTodo changes exactly the fields supplied and leaves every
\* other field of the task unchanged; with a tags field the tag set of the
\* task is afterwards exactly the supplied list, previous tags gone; without
\* it the tag set is unchanged.  A list that names a tag twice fails at the
\* insert, after the delete: the task is left without tags.
C29_UpdateFrame ==
  [][\A r \in Slots :
       /\ \A t \in TodoIds :
            (UpdateCalled(r, t) /\ todos[t] # Nil) =>
              LET updates == reqs'[r].meta IN
              /\ \A f \in DOMAIN todos[t] :
                   todos'[t][f] = (IF Has(updates, f) /\ f # "tags"
                                   THEN updates[f] ELSE todos[t][f])
              /\ \A o \in TodoIds \ {t} : todos'[o] = todos[o]
              /\ ~Has(updates, "tags") =>
                   /\ reqs'[r].pc = "done"
                   /\ UNCHANGED todoTags
       /\ (UpdateReturned(reqs'[r]) /\ todos'[reqs'[r].tid] # Nil
            /\ Has(reqs'[r].meta, "tags")) =>
            todoTags'[reqs'[r].tid] = ToSet(reqs'[r].meta.tags)]_vars

\* the same, for lists that name no tag twice
UpdateFrame_NoDuplicates ==
  [][\A r \in Slots :
       (UpdateReturned(reqs'[r]) /\ todos'[reqs'[r].tid] # Nil
        /\ Has(reqs'[r].meta, "tags") /\ ~HasDuplicates(reqs'[r].meta.tags)) =>
         /\ todoTags'[reqs'[r].tid] = ToSet(reqs'[r].meta.tags)
         /\ reqs'[r].res = "ok"]_vars

(***************************************************************************)
(* Claims about deleteTodo, checked under Spec.                            *)
(***************************************************************************)
\* the delete request in slot r removes the row in this step
DeleteRuns(r) ==
  /\ reqs[r].kind = "delete"
  /\ reqs[r].pc = "del"
  /\ reqs'[r].pc = "done"

\* nothing in the tag table or the streak table refers to task t
Unreferenced(t) ==
  /\ todoTags[t] = {}
  /\ \A e \in Entities : dailyStreaks[<<t, e>>] = Nil

\* C30: after deleteTodo(id) no tag row and no streak record refers to the
\* deleted task, every ledger transaction that was linked to it still
\* exists with its task reference nulled and its amount unchanged, and every
\* account balance is unchanged.
C30_DeleteCascades ==
  [][\A r \in Slots :
       DeleteRuns(r) =>
         LET t == reqs[r].tid IN
         /\ todos'[t] = Nil
         /\ Unreferenced(t)'
         /\ Len(pointHistory') = Len(pointHistory)
         /\ \A i \in 1..Len(pointHistory) :
              /\ pointHistory'[i].points = pointHistory[i].points
              /\ pointHistory'[i].acct = pointHistory[i].acct
              /\ pointHistory'[i].todoId =
                   (IF pointHistory[i].todoId = t THEN NoTodoId
                    ELSE pointHistory[i].todoId)
         /\ UNCHANGED userPoints]_vars

\* a rewarded daily task has been deleted: its transaction is still in the
\* ledger, linked to no task, and the balance still holds its points
C30_Witness ==
  \E r \in Slots :
    /\ reqs[r].kind = "delete"
    /\ reqs[r].pc = "done"
    /\ reqs[r].res = "200"
    /\ todos[reqs[r].tid] = Nil
    /\ Len(pointHistory) > 0
    /\ pointHistory[1].todoId = NoTodoId
    /\ pointHistory[1].points = DailyPoints
    /\ userPoints[UserAccount] # Nil
    /\ userPoints[UserAccount].currentPoints >= DailyPoints

(***************************************************************************)
(* CreateFaultSpec: createTodo where the insert into todo_tags or into     *)
(* daily_streaks may throw.  The three inserts of createTodo are separate  *)
(* statements on this.runtime.db, with no transaction around them.         *)
(***************************************************************************)
\* the insert the call in slot r is waiting for rejects
createTodo_throws(r) ==
  /\ reqs[r].kind = "create"
  /\ reqs[r].pc \in {"cr_tags", "cr_streak"}
  /\ SetReq(r, Caught(reqs[r]))
  /\ UNCHANGED <<storeVars, now, runtime, reminderVars, rewarded>>

CreateFaultNext ==
  \/ \E r \in Slots : Quiescent /\ NewTodo(r)
  \/ \E r \in Slots : CreateSteps(r)
  \/ \E r \in Slots : createTodo_throws(r)
  \/ \E r \in Slots : Retire(r)

CreateFaultSpec == Init /\ [][CreateFaultNext]_vars

\* the call of createTodo in slot r returns or raises in this step
CreateEnds(r) ==
  /\ reqs[r].kind = "create"
  /\ Busy(r)
  /\ reqs'[r].pc = "done"

\* C31: createTodo for a daily task creates the task and its zero-valued
\* streak record atomically: when it returns, the streak record of (task,
\* creator) exists with (0, 0); when it raises, no task row, tag row or
\* streak row of the call persists.  The task row is inserted first and
\* stays when a later insert throws.
C31_CreateAtomic ==
  [][\A r \in Slots :
       CreateEnds(r) =>
         LET t == reqs[r].tid
             k == <<t, reqs[r].entity>>
         IN
         /\ (reqs'[r].res = "201" /\ todos'[t].type = "daily") =>
              /\ dailyStreaks'[k] # Nil
              /\ dailyStreaks'[k].currentStreak = 0
              /\ dailyStreaks'[k].longestStreak = 0
              /\ \A e \in Entities \ {reqs[r].entity} : dailyStreaks'[<<t, e>>] = Nil
         /\ reqs'[r].res # "201" =>
              /\ todos'[t] = Nil
              /\ todoTags'[t] = {}
              /\ \A e \in Entities : dailyStreaks'[<<t, e>>] = Nil]_vars

(***************************************************************************)
(* POST /api/todos: the checks of the body, then createTodo.  A key the    *)
(* body leaves out is absent from the record.                              *)
(***************************************************************************)
\* faulty variant, for sensitivity runs: the type of the task is not checked
PostTodosCheck_AnyType(body) ==
  IF ~Has(body, "name") \/ ~Has(body, "type") \/ ~Has(body, "roomId") THEN "400" ELSE "go"

PostTodosCheck(body) ==
  IF ~Has(body, "name") \/ ~Has(body, "type") \/ ~Has(body, "roomId") THEN "400"
  ELSE IF body.type \notin TaskTypes THEN "400"
  ELSE "go"

\* a rejected request keeps its body with the answer
Rejected(kind, t, body, code) ==
  [Finish(Begin(kind, t, NoEntity), code) EXCEPT !.meta = body]

PostTodos(r, body) ==
  IF PostTodosCheck(body) = "go"
  THEN CreateTodo(r, body.type,
                  IF Has(body, "priority") THEN body.priority ELSE 0,
                  IF Has(body, "isUrgent") THEN body.isUrgent ELSE FALSE,
                  IF Has(body, "dueDate") THEN body.dueDate ELSE NoDate)
  ELSE /\ Free(r)
       /\ SetReq(r, Rejected("create", NoTodoId, body, PostTodosCheck(body)))
       /\ UNCHANGED <<storeVars, now, runtime, reminderVars, rewarded>>

(***************************************************************************)
(* PUT /api/todos/:id: the checks, getTodo, the updates computed from the  *)
(* task as read, then updateTodo with fields, tags and metadata.           *)
(***************************************************************************)
UpdatedPriorityTag(priority) == "priority-" \o ToString(priority)

RECURSIVE ListOf(_)
ListOf(S) == IF S = {} THEN <<>> ELSE LET x == CHOOSE y \in S : TRUE
                                     IN <<x>> \o ListOf(S \ {x})

\* updatedTags.splice(findIndex(startsWith(prefix)), 1): one tag goes, if any
WithoutFirst(tags, candidates) ==
  IF tags \cap candidates = {} THEN tags
  ELSE tags \ {CHOOSE x \in tags \cap candidates : TRUE}

PutTodoCheck(updateData, task) ==
  IF updateData = EmptyObj THEN "400" ELSE IF task = Nil THEN "404" ELSE "go"

PutTodoUpdates(task, tags, updateData, priorityTags, recurringTags) ==
  LET withPriority == Has(updateData, "priority") /\ updateData.priority # 0
                        /\ task.type = "one-off"
      withUrgent == Has(updateData, "urgent") /\ task.type = "one-off"
      withRecurring == Has(updateData, "recurring") /\ task.type = "daily"
      tags1 == IF withPriority
               THEN WithoutFirst(tags, priorityTags)
                      \cup {UpdatedPriorityTag(updateData.priority)}
               ELSE tags
      tags2 == IF withUrgent
               THEN (tags1 \ {"urgent"}) \cup (IF updateData.urgent THEN {"urgent"} ELSE {})
               ELSE tags1
      tags3 == IF withRecurring
               THEN WithoutFirst(tags2, recurringTags) \cup {"recurring-" \o updateData.recurring}
               ELSE tags2
      updatedMetadata == IF withRecurring
                         THEN Put(task.metadata, "recurring", updateData.recurring)
                         ELSE task.metadata
      f1 == IF withPriority THEN [priority |-> updateData.priority] ELSE EmptyObj
      f2 == IF withUrgent THEN Put(f1, "isUrgent", updateData.urgent) ELSE f1
      f3 == IF Has(updateData, "dueDate") THEN Put(f2, "dueDate", updateData.dueDate) ELSE f2
  IN Put(Put(f3, "tags", ListOf(tags3)), "metadata", updatedMetadata)

PriorityInputs == {2, 7}
RecurringInputs == {"weekly"}
KnownPriorityTags == {UpdatedPriorityTag(p) : p \in 1..4 \cup PriorityInputs}
KnownRecurringTags == {"recurring-daily"} \cup {"recurring-" \o x : x \in RecurringInputs}

PutTodo(r, t, updateData) ==
  LET task == todos[t]
      check == PutTodoCheck(updateData, task)
      q == Begin("putTodo", t, NoEntity)
  IN
  /\ Free(r)
  /\ SetReq(r, IF check = "go"
               THEN [q EXCEPT !.task = task,
                              !.meta = PutTodoUpdates(task, todoTags[t], updateData,
                                                      KnownPriorityTags, KnownRecurringTags),
                              !.pc = "ut_update"]
               ELSE Rejected("putTodo", t, updateData, check))
  /\ UNCHANGED <<storeVars, now, runtime, reminderVars, rewarded>>

\* db.update(todosTable).set(updateData).where(eq(todosTable.id, todoId))
updateTodo_update(r) ==
  LET q == reqs[r] IN
  /\ q.pc = "ut_update"
  /\ todos' = updateTodoRows(todos, q.tid, UpdateData(q.meta))
  /\ SetReq(r, IF Has(q.meta, "tags") THEN [q EXCEPT !.pc = "ut_delete"]
               ELSE updateTodo_returns(q, "ok"))
  /\ UNCHANGED <<todoTags, dailyStreaks, userPoints, pointHistory, nextId, now, runtime,
                 reminderVars, rewarded>>

PutSteps(r) ==
  \/ updateTodo_update(r)
  \/ updateTodo_deleteTags(r)
  \/ updateTodo_insertTags(r)

(***************************************************************************)
(* RestSpec: the REST routes and the action, served one request at a time, *)
(* with bodies that pass and bodies that fail the checks, for ids of       *)
(* stored tasks and ids that match no task.                                *)
(***************************************************************************)
ValidBodies ==
  {[name |-> "n", type |-> "daily", roomId |-> TheRoom],
   [name |-> "n", type |-> "aspirational", roomId |-> TheRoom],
   [name |-> "n", type |-> "one-off", roomId |-> TheRoom, dueDate |-> 2],
   [name |-> "n", type |-> "one-off", roomId |-> TheRoom, dueDate |-> 0, isUrgent |-> TRUE]}
     \cup {[name |-> "n", type |-> "one-off", roomId |-> TheRoom, priority |-> p,
             dueDate |-> 2] : p \in PriorityInputs}

InvalidBodies ==
  {[type |-> "daily", roomId |-> TheRoom],
   [name |-> "n", roomId |-> TheRoom],
   [name |-> "n", type |-> "one-off"],
   [name |-> "n", type |-> "weekly", roomId |-> TheRoom],
   EmptyObj}

PutBodies ==
  {EmptyObj, [urgent |-> TRUE], [urgent |-> FALSE], [dueDate |-> NoDate], [dueDate |-> 0]}
    \cup {[priority |-> p] : p \in PriorityInputs}
    \cup {[recurring |-> x] : x \in RecurringInputs}

RestNext ==
  \/ \E r \in Slots, body \in ValidBodies \cup InvalidBodies :
        Quiescent /\ nextId = 1 /\ PostTodos(r, body)
  \/ \E r \in Slots, t \in TodoIds, e \in {"user", NoEntity} :
        Quiescent /\ Room(Limits) /\ RestComplete(r, t, e)
  \/ \E r \in Slots, t \in TodoIds :
        Quiescent /\ Room(Limits) /\ ActComplete(r, t, "user")
  \/ \E r \in Slots, t \in TodoIds : Quiescent /\ Uncomplete(r, t)
  \/ \E r \in Slots, t \in TodoIds, u \in PutBodies : Quiescent /\ PutTodo(r, t, u)
  \/ \E r \in Slots : Quiescent /\ resetDailyTodos(r, TheAgent)
  \/ \E r \in Slots, t \in TodoIds : Quiescent /\ DeleteTodo(r, t)
  \/ \E r \in Slots : Step(r)
  \/ \E r \in Slots : PutSteps(r)
  \/ \E r \in Slots : Retire(r)

RestSpec == Init /\ [][RestNext]_vars

\* a request arrives in slot r and is answered at once with the code
AnsweredAtOnce(r, code) ==
  /\ reqs'[r].pc = "done"
  /\ reqs'[r].res = code
  /\ UNCHANGED storeVars

\* a request of the kind arrives in slot r
Arrives(r, kind) == reqs[r].pc = "idle" /\ reqs'[r].kind = kind

\* the body of the POST lacks a required field or names no task type
BadPost(body) ==
  \/ \E f \in {"name", "type", "roomId"} : ~Has(body, f)
  \/ body.type \notin {"daily", "one-off", "aspirational"}

NeedsResetTask_Always(existingTasks) == TRUE

\* if (existingTasks.length === 0)
NeedsResetTask(existingTasks) == existingTasks = 0

\* getSetting, registerTaskWorker, and getTasks with what follows it
init(r) ==
  LET q == Begin("init", NoTodoId, NoEntity) IN
  /\ Free(r)
  /\ IF ~runtime.worldId
     THEN /\ SetReq(r, Finish(q, "skipped"))
          /\ UNCHANGED runtime
     ELSE /\ runtime' = [runtime EXCEPT !.worker = TRUE]
          /\ SetReq(r, IF NeedsResetTask(runtime.tasks) THEN [q EXCEPT !.pc = "in_create"]
                       ELSE Finish(q, "exists"))
  /\ UNCHANGED <<storeVars, now, reminderVars, rewarded>>

\* runtime.createTask({name: 'RESET_DAILY_TASKS', ...})
init_createTask(r) ==
  /\ reqs[r].pc = "in_create"
  /\ runtime' = [runtime EXCEPT !.tasks = @ + 1]
  /\ SetReq(r, Finish(reqs[r], "ok"))
  /\ UNCHANGED <<storeVars, now, reminderVars, rewarded>>

\* the worker's execute: resetDailyTodos inside try / catch
execute(r) ==
  /\ runtime.worker
  /\ resetDailyTodos(r, TheAgent)

\* resetDailyTodos throws: the catch block logs, execute resolves
execute_resetThrows(r) ==
  /\ runtime.worker
  /\ Free(r)
  /\ SetReq(r, Finish(Begin("reset", NoTodoId, TheAgent), "ok"))
  /\ UNCHANGED <<storeVars, now, reminderVars, rewarded, runtime>>

PluginInit ==
  /\ todos = [t \in TodoIds |-> Nil]
  /\ todoTags = [t \in TodoIds |-> {}]
  /\ dailyStreaks = [k \in TodoIds \X Entities |-> Nil]
  /\ userPoints = [k \in Entities \X Worlds \X Rooms |-> Nil]
  /\ pointHistory = <<>>
  /\ nextId = 1
  /\ now = 1
  /\ reqs = [r \in Slots |-> Idle]
  /\ timer = Nil
  /\ scan = Nil
  /\ sent = <<>>
  /\ svc = [stopped |-> FALSE, lastTick |-> NoDate]
  /\ rewarded = [t \in TodoIds |-> FALSE]
  /\ \E w \in BOOLEAN : runtime = [NoPlugin EXCEPT !.worldId = w]

PluginNext ==
  \/ \E r \in Slots : Quiescent /\ init(r)
  \/ \E r \in Slots : init_createTask(r)
  \/ \E r \in Slots : Quiescent /\ execute(r)
  \/ \E r \in Slots : Quiescent /\ execute_resetThrows(r)
  \/ \E r \in Slots, type \in {"daily", "aspirational"} :
        Quiescent /\ nextId <= MaxTodos /\ CreateTodo(r, type, 0, FALSE, NoDate)
  \/ \E r \in Slots, t \in TodoIds :
        Quiescent /\ Room(Limits) /\ RestComplete(r, t, "user")
  \/ \E r \in Slots : CreateSteps(r) \/ PointsSteps(r) \/ StreakSteps(r)
                          \/ RestComplete_update(r)
  \/ \E r \in Slots : Retire(r)

PluginSpec == PluginInit /\ [][PluginNext]_vars

\* C33: init registers the RESET_DAILY_TASKS worker and creates the reset
\* task only when WORLD_ID is set, and creates the task only when none
\* exists yet: after any number of sequential init calls at most one reset
\* task exists; without WORLD_ID there is no worker and no task; the
\* worker's execute never raises, even when resetDailyTodos fails.
C33_InitOnce ==
  /\ runtime.tasks <= 1
  /\ ~runtime.worldId => (~runtime.worker /\ runtime.tasks = 0)
  /\ \A r \in Slots :
       /\ (reqs[r].kind = "init" /\ reqs[r].pc = "done" /\ runtime.worldId) =>
            (runtime.worker /\ runtime.tasks = 1)
       /\ (reqs[r].kind = "reset" /\ reqs[r].pc = "done") => reqs[r].res # "error"

\* a later init call has found the reset task and created none
C33_Witness ==
  \E r \in Slots :
    /\ reqs[r].kind = "init"
    /\ reqs[r].pc = "done"
    /\ reqs[r].res = "exists"
    /\ runtime.tasks = 1
    /\ runtime.worker

(***************************************************************************)
(* The two completion paths side by side.                                  *)
(***************************************************************************)
\* the points the action's handler computes for a task read at a time
\* (one-off and aspirational tasks: the award is known before any write)
AwardedByAction(task, at) ==
  ActCompleteBody([Idle EXCEPT !.kind = "actComplete", !.task = task, !.at = at]).pts

\* C34: a completion with context through the route has the outcome of the
\* action on the same task: the same points (for a one-off or aspirational
\* task the number the action computes), one transaction of that amount
\* linked to the task, the balance raised by it, for a daily task the streak
\* record at the streak the request returned, and the task completed.
C34_PathsAgree ==
  \A r \in Slots :
    LET q == reqs[r]
        task == todos[q.tid]
        a == <<q.entity, TheWorld, TheRoom>>
    IN ( /\ q.kind = "restComplete" /\ Succeeded(q)
         /\ q.entity # NoEntity /\ task # Nil )
       => ( /\ task.isCompleted
            /\ task.type # "daily" => q.pts = AwardedByAction(task, q.at)
            /\ Len(pointHistory) = q.h0 + 1
            /\ LastTransaction = Transaction(a, q.tid, q.pts)
            /\ Balance(a) = q.b0 + q.pts
            /\ task.type = "daily" =>
                 ( /\ dailyStreaks[<<q.tid, q.entity>>] # Nil
                   /\ dailyStreaks[<<q.tid, q.entity>>].currentStreak = q.newStreak ) )

\* the same statement of the action itself, and of the route on every task
\* but a one-off task without a due date
PathsAgree_Action ==
  \A r \in Slots :
    LET q == reqs[r]
        task == todos[q.tid]
        a == <<q.entity, TheWorld, TheRoom>>
    IN ( /\ IsCompletion(q) /\ Succeeded(q)
         /\ q.entity # NoEntity /\ task # Nil
         /\ ~(q.kind = "restComplete" /\ task.type = "one-off" /\ task.dueDate = NoDate) )
       => ( /\ task.isCompleted
            /\ task.type # "daily" => q.pts = AwardedByAction(task, q.at)
            /\ Len(pointHistory) = q.h0 + 1
            /\ LastTransaction = Transaction(a, q.tid, q.pts)
            /\ Balance(a) = q.b0 + q.pts
            /\ task.type = "daily" =>
                 ( /\ dailyStreaks[<<q.tid, q.entity>>] # Nil
                   /\ dailyStreaks[<<q.tid, q.entity>>].currentStreak = q.newStreak ) )

(***************************************************************************)
(* Failed completions, checked under FaultSpec.                            *)
(***************************************************************************)
\* the completion q has ended in its catch block
FailedCompletion(q) == IsCompletion(q) /\ q.pc = "done" /\ q.res = "error"

\* C35: a completion that ends in an error at a storage step has left the
\* task incomplete, the ledger at its length and the balance at its value
\* from before the attempt, and has written no streak record (updateStreak
\* has returned no new streak to it).
C35_FailureLeavesNothing ==
  \A r \in Slots :
    LET q == reqs[r]
        a == <<q.entity, TheWorld, TheRoom>>
    IN (FailedCompletion(q) /\ todos[q.tid] # Nil)
       => ( /\ ~todos[q.tid].isCompleted
            /\ Len(pointHistory) = q.h0
            /\ q.entity # NoEntity => Balance(a) = q.b0
            /\ q.newStreak = 0 )

\* the failures that do leave nothing: the first storage call of the attempt
FailedAtFirstCall ==
  [][\A r \in Slots :
       ( /\ IsCompletion(reqs[r])
         /\ reqs[r].pc \in {"us_select", "us_insert"} \/
              (reqs[r].pc = "ap_select" /\ reqs[r].kind = "restComplete"
                 /\ reqs[r].task.type # "daily")
         /\ FailedCompletion(reqs'[r]) )
       => ( /\ ~todos'[reqs'[r].tid].isCompleted
            /\ Len(pointHistory') = reqs'[r].h0
            /\ reqs'[r].newStreak = 0 )]_vars

\* a daily task completed once, after a failed attempt, at the streak of two completions
RetryCountsTwice ==
  \E r \in Slots :
    /\ IsCompletion(reqs[r]) /\ Succeeded(reqs[r])
    /\ reqs[r].newStreak = 2
    /\ Len(pointHistory) = 1
    /\ now = 1

(***************************************************************************)
(* PeriodSpec: one completion period.  Tasks are created, completed by     *)
(* either path and uncompleted; the daily reset does not run.              *)
(***************************************************************************)
PeriodNext ==
  \/ \E r \in Slots : Quiescent /\ nextId = 1 /\ NewTodo(r)
  \/ \E r \in Slots, t \in 1..MaxTodos, e \in {"user", NoEntity} :
       Quiescent /\ Room(Limits) /\ todos[t] # Nil /\ RestComplete(r, t, e)
  \/ \E r \in Slots, t \in 1..MaxTodos :
       Quiescent /\ Room(Limits) /\ todos[t] # Nil /\ ActComplete(r, t, "user")
  \/ \E r \in Slots, t \in 1..MaxTodos : Quiescent /\ todos[t] # Nil /\ Uncomplete(r, t)
  \/ \E r \in Slots : PointsSteps(r) \/ StreakSteps(r) \/ CompleteSteps(r) \/ CreateSteps(r)
  \/ \E r \in Slots : Uncomplete_update(r)
  \/ \E r \in Slots : Retire(r)

PeriodSpec == Init /\ [][PeriodNext]_vars

\* the transactions of the ledger linked to task t
LinkedTo(t) == {i \in 1..Len(pointHistory) : pointHistory[i].todoId = t}

\* C36: within one completion period, whatever the sequence of complete and
\* uncomplete requests, the ledger holds at most one transaction linked to a
\* task, and the streak records of a daily task have grown by at most 1
\* (from the 0 of their creation).
C36_OncePerPeriod ==
  \A t \in TodoIds :
    todos[t] # Nil =>
      /\ Cardinality(LinkedTo(t)) <= 1
      /\ todos[t].type = "daily" =>
           \A e \in Entities :
             dailyStreaks[<<t, e>>] # Nil => dailyStreaks[<<t, e>>].currentStreak <= 1

(***************************************************************************)
(* InterleaveSpec: the reminder scan and the requests on one overdue task. *)
(* A request may be served between the scan's fetch and its metadata       *)
(* write; requests are served one at a time.                               *)
(***************************************************************************)
InterleaveNext ==
  \/ \E r \in Slots :
       Quiescent /\ scan = Nil /\ nextId = 1 /\ CreateTodo(r, "one-off", 0, FALSE, 0)
  \/ \E r \in Slots : createTodo_tags(r)
  \/ \E r \in Slots, t \in 1..MaxTodos :
       Quiescent /\ Room(Limits) /\ todos[t] # Nil /\ ActComplete(r, t, "user")
  \/ \E r \in Slots, t \in 1..MaxTodos : Quiescent /\ todos[t] # Nil /\ Uncomplete(r, t)
  \/ \E r \in Slots, t \in 1..MaxTodos :
       Quiescent /\ todos[t] # Nil /\ PutTodo(r, t, [urgent |-> TRUE])
  \/ \E r \in Slots : PointsSteps(r) \/ ActComplete_update(r) \/ Uncomplete_update(r)
  \/ \E r \in Slots : PutSteps(r)
  \/ \E r \in Slots : Retire(r)
  \/ startTimer
  \/ ScanSteps
  \/ ClockTick(MaxScanClock)

InterleaveSpec == Init /\ [][InterleaveNext]_vars

\* the scan writes the metadata of its current task in this step
ScanStamps ==
  /\ scan # Nil
  /\ scan.pc = "update"
  /\ scan' # scan
  /\ todos' # todos

\* C37: the metadata write of a reminder scan changes, in the task as it is
\* stored at that moment, the key metadata.lastReminderSent and nothing
\* else, a request served since the scan's fetch notwithstanding.
C37_ScanWritesStampOnly ==
  [][ScanStamps =>
       todos' = [todos EXCEPT ![scan.cur] =
                   Merge(@, [metadata |-> Put(todos[scan.cur].metadata,
                                              "lastReminderSent", now)])]]_vars

\* the same of a scan that no request has crossed: the row is as it was fetched
ScanWritesStampOnly_Alone ==
  [][(ScanStamps /\ todos[scan.cur] = scan.rows[scan.cur]) =>
       todos' = [todos EXCEPT ![scan.cur] =
                   Merge(@, [metadata |-> Put(todos[scan.cur].metadata,
                                              "lastReminderSent", now)])]]_vars

(***************************************************************************)
(* The streak snapshot of a daily task and its streak record, under Spec.  *)
(***************************************************************************)
\* the snapshot of task t equals the current streak of the record of (t, e)
SnapshotMatches(t, e) ==
  MetadataStreak(todos[t]) = dailyStreaks[<<t, e>>].currentStreak

\* C38: whenever no request is in flight, the metadata.streak of every daily
\* task equals the currentStreak of the streak record of the task and the
\* entity that has completed it, after any sequence of completions with or
\* without context, uncompletes and daily resets.
C38_SnapshotIsRecord ==
  Quiescent =>
    \A t \in TodoIds :
      ( /\ todos[t] # Nil /\ todos[t].type = "daily"
        /\ dailyStreaks[<<t, "user">>] # Nil )
      => SnapshotMatches(t, "user")

\* the same as long as every completion so far was one with context: each
\* has appended its transaction, so the ledger is as long as the snapshot
SnapshotIsRecord_WithContext ==
  Quiescent =>
    \A t \in TodoIds :
      ( /\ todos[t] # Nil /\ todos[t].type = "daily"
        /\ dailyStreaks[<<t, "user">>] # Nil
        /\ MetadataStreak(todos[t]) = Len(pointHistory) )
      => SnapshotMatches(t, "user")

(***************************************************************************)
(* The sign of the points, under RestSpec: the priorities are those the    *)
(* create and update routes store.                                         *)
(***************************************************************************)
\* C39: every completion computes a points amount of 0 or more, the ledger
\* holds no negative transaction, and no step lowers the currentPoints of an
\* account, whatever priority the routes have stored.
C39_PointsNeverNegative ==
  [][/\ \A r \in Slots : IsCompletion(reqs'[r]) => reqs'[r].pts >= 0
     /\ \A i \in 1..Len(pointHistory') : pointHistory'[i].points >= 0
     /\ \A k \in DOMAIN userPoints : Balance(k)' >= Balance(k)]_vars

\* the same of the tasks whose priority is one of 1..4 or unset
PointsNeverNegative_KnownPriority ==
  [][(\A t \in TodoIds : todos[t] # Nil => todos[t].priority \in 0..4) =>
       /\ \A r \in Slots : IsCompletion(reqs'[r]) => reqs'[r].pts >= 0
       /\ Len(pointHistory') > Len(pointHistory) =>
            pointHistory'[Len(pointHistory')].points >= 0
       /\ \A k \in DOMAIN userPoints : Balance(k)' >= Balance(k)]_vars

(***************************************************************************)
(* The completion flag and the completion date, under RestSpec.            *)
(***************************************************************************)
\* C40: in every reachable state, after any sequence of create, complete (by
\* action or route), uncomplete, daily reset and PUT update, a stored task
\* has isCompleted = true exactly when its completedAt is set.
C40_CompletedIffDated ==
  \A t \in TodoIds :
    todos[t] # Nil => (todos[t].isCompleted <=> todos[t].completedAt # NoDate)

\* a daily task that was completed with context (its streak record stands
\* at 1 or more) is incomplete and undated again, after a reset or an
\* uncomplete, and a PUT update of it has just been answered
C40_Witness ==
  \E r \in Slots :
    /\ reqs[r].kind = "putTodo"
    /\ reqs[r].pc = "done"
    /\ todos[reqs[r].tid] # Nil
    /\ todos[reqs[r].tid].type = "daily"
    /\ ~todos[reqs[r].tid].isCompleted
    /\ todos[reqs[r].tid].completedAt = NoDate
    /\ dailyStreaks[<<reqs[r].tid, "user">>] # Nil
    /\ dailyStreaks[<<reqs[r].tid, "user">>].currentStreak >= 1

====
